---------------------------- MODULE Spec2Model ----------------------------
(***************************************************************************)
(* A model of woof: the interpolation parser (src/src/interpolations.rs),  *)
(* the module tree builder and the template materializer                   *)
(* (src/src/parse.rs), the key sanitizer (src/src/sanitize.rs) and the     *)
(* diagnostics accumulator (src/src/context.rs).                           *)
(*                                                                         *)
(* A string is a sequence of characters; a character is a one-letter       *)
(* string, except UnicodeLetter, which stands for a two-byte letter, and   *)
(* Backtick.                                                               *)
(* Offsets are byte offsets, as in the source.                             *)
(***************************************************************************)
EXTENDS Integers, Sequences, FiniteSets, TLC

VARIABLES
  literal,                \* the string handed to Translation::new
  s,                      \* translation.0, the escaped text
  pc,                     \* position of the parse / materialize run
  pos,                    \* chars: index of the next character of s
  parsing_interpolation,
  start_byte_index,
  parsing_type,
  current_name,
  current_type,
  result,                 \* ParsedInterpolations
  locales,                \* the HashMap<Locale, Value> handed to build_flat_module
  remaining,              \* the locales its loop has not visited yet
  messages,               \* the messages map under construction
  modules,                \* the modules map under construction
  ret,                    \* what build_flat_module returned
  diagnostics,            \* the Diagnostics accumulator
  msg,                    \* the Message being materialized
  loc,                    \* the locale it is materialized for
  template,               \* what template_for_locale returned
  namespaces,             \* the HashMap<String, HashMap<Locale, Value>> of namespaced mode
  ns_remaining,           \* the namespaces build_namespaced_module has not visited yet
  ns_modules,             \* its modules map under construction
  ns_ret,                 \* what build_namespaced_module returned
  dir,                    \* the .toml files of the input directory
  unread,                 \* the files collect_namespaced has not visited yet
  files,                  \* its result map: HashMap<Locale, NamespacedFile>
  collect_ret,              \* what collect_namespaced returned, then the grouping
  recorded,               \* how many diagnostics the calls so far have recorded
  made_key                \* the Key made by Key::new

scanVars == <<pos, parsing_interpolation, start_byte_index, parsing_type,
              current_name, current_type>>
parseVars == <<literal, s, pc, scanVars, result>>
buildVars == <<locales, remaining, messages, modules, ret, diagnostics>>
tmplVars == <<msg, loc, template>>
nsVars == <<namespaces, ns_remaining, ns_modules, ns_ret>>
collectVars == <<dir, unread, files, collect_ret>>
restVars == <<nsVars, collectVars, recorded, made_key>>
vars == <<parseVars, buildVars, tmplVars, restVars>>

---------------------------------------------------------------------------
(* Bounds of the model *)

MaxNameLen == 2
MaxAtoms == 2
MaxLen == 4
MaxNestedLen == 1
MaxPlaceholders == 2

---------------------------------------------------------------------------
(* Characters *)

UnicodeLetter == "U+00E9"
Backtick == "U+0060"

\* The characters of the model in ascending code point order.
CodeOrder == <<"$", "-", ".", "0", "1", "2", "3", "4", "5", "6", "7", "8", "9", ":",
               "A", "B", "C", "D", "E", "F", "G", "H", "I", "J", "K", "L", "M",
               "N", "O", "P", "Q", "R", "S", "T", "U", "V", "W", "X", "Y", "Z",
               "\\", "_", Backtick,
               "a", "b", "c", "d", "e", "f", "g", "h", "i", "j", "k", "l", "m",
               "n", "o", "p", "q", "r", "s", "t", "u", "v", "w", "x", "y", "z",
               "{", "}", UnicodeLetter>>

AsciiLetters == {"A", "B", "C", "D", "E", "F", "G", "H", "I", "J", "K", "L", "M",
                 "N", "O", "P", "Q", "R", "S", "T", "U", "V", "W", "X", "Y", "Z",
                 "a", "b", "c", "d", "e", "f", "g", "h", "i", "j", "k", "l", "m",
                 "n", "o", "p", "q", "r", "s", "t", "u", "v", "w", "x", "y", "z"}
AsciiDigits == {"0", "1", "2", "3", "4", "5", "6", "7", "8", "9"}

is_ascii_alphabetic(c) == c \in AsciiLetters
is_ascii_alphanumeric(c) == c \in AsciiLetters \cup AsciiDigits
is_alphanumeric(c) == c \in AsciiLetters \cup AsciiDigits \cup {UnicodeLetter}
is_numeric(c) == c \in AsciiDigits

\* char::len_utf8
len_utf8(c) == IF c = UnicodeLetter THEN 2 ELSE 1

\* str::len, in bytes
RECURSIVE len(_)
len(str) == IF str = <<>> THEN 0 ELSE len_utf8(Head(str)) + len(Tail(str))

\* A faulty variant that C25 must tell apart: the offset counts characters
byte_index_of_chars(str, i) == i - 1

\* char_indices: the byte offset of the i-th character of str (1-based i)
byte_index_of(str, i) == len(SubSeq(str, 1, i - 1))

contains(str, c) == \E i \in 1..Len(str) : str[i] = c

str_string == <<"s", "t", "r", "i", "n", "g">>
str_number == <<"n", "u", "m", "b", "e", "r">>

---------------------------------------------------------------------------
(* src/src/sanitize.rs *)

\* A faulty variant that C1 must tell apart: no underscore after the first letter
is_valid_identifier_no_underscore(str) ==
  /\ str # <<>>
  /\ is_ascii_alphabetic(str[1])
  /\ \A i \in 2..Len(str) : is_ascii_alphanumeric(str[i])

is_valid_identifier(str) ==
  /\ str # <<>>
  /\ is_ascii_alphabetic(str[1])
  /\ \A i \in 2..Len(str) : is_ascii_alphanumeric(str[i]) \/ str[i] = "_"

RECURSIVE escape_from(_, _)
escape_from(chars, i) ==
  IF i > Len(chars) THEN <<>>
  ELSE LET c == chars[i]
           out == CASE c = Backtick -> <<"\\", Backtick>>
                    [] c = "\\" -> <<"\\", "\\">>
                    [] c = "$" -> IF i + 1 <= Len(chars) /\ chars[i + 1] = "{"
                                  THEN <<"\\", "$">>
                                  ELSE <<"$">>
                    [] OTHER -> <<c>>
       IN out \o escape_from(chars, i + 1)

escape_translation(str) == escape_from(str, 1)

\* the static KEYWORDS of is_reserved_keyword
KEYWORDS == {
  <<"a", "b", "s", "t", "r", "a", "c", "t">>, <<"a", "r", "g", "u", "m", "e", "n", "t", "s">>,
  <<"a", "w", "a", "i", "t">>, <<"b", "o", "o", "l", "e", "a", "n">>,
  <<"b", "r", "e", "a", "k">>, <<"b", "y", "t", "e">>, <<"c", "a", "s", "e">>,
  <<"c", "a", "t", "c", "h">>, <<"c", "h", "a", "r">>, <<"c", "l", "a", "s", "s">>,
  <<"c", "o", "n", "s", "t">>, <<"c", "o", "n", "t", "i", "n", "u", "e">>,
  <<"d", "e", "b", "u", "g", "g", "e", "r">>, <<"d", "e", "f", "a", "u", "l", "t">>,
  <<"d", "e", "l", "e", "t", "e">>, <<"d", "o">>, <<"d", "o", "u", "b", "l", "e">>,
  <<"e", "l", "s", "e">>, <<"e", "n", "u", "m">>, <<"e", "v", "a", "l">>,
  <<"e", "x", "p", "o", "r", "t">>, <<"e", "x", "t", "e", "n", "d", "s">>,
  <<"f", "a", "l", "s", "e">>, <<"f", "i", "n", "a", "l">>,
  <<"f", "i", "n", "a", "l", "l", "y">>, <<"f", "l", "o", "a", "t">>, <<"f", "o", "r">>,
  <<"f", "u", "n", "c", "t", "i", "o", "n">>, <<"g", "o", "t", "o">>, <<"i", "f">>,
  <<"i", "m", "p", "l", "e", "m", "e", "n", "t", "s">>, <<"i", "m", "p", "o", "r", "t">>,
  <<"i", "n">>, <<"i", "n", "s", "t", "a", "n", "c", "e", "o", "f">>, <<"i", "n", "t">>,
  <<"i", "n", "t", "e", "r", "f", "a", "c", "e">>, <<"l", "e", "t">>, <<"l", "o", "n", "g">>,
  <<"n", "a", "t", "i", "v", "e">>, <<"n", "e", "w">>, <<"n", "u", "l", "l">>,
  <<"p", "a", "c", "k", "a", "g", "e">>, <<"p", "r", "i", "v", "a", "t", "e">>,
  <<"p", "r", "o", "t", "e", "c", "t", "e", "d">>, <<"p", "u", "b", "l", "i", "c">>,
  <<"r", "e", "t", "u", "r", "n">>, <<"s", "h", "o", "r", "t">>,
  <<"s", "t", "a", "t", "i", "c">>, <<"s", "u", "p", "e", "r">>,
  <<"s", "w", "i", "t", "c", "h">>,
  <<"s", "y", "n", "c", "h", "r", "o", "n", "i", "z", "e", "d">>, <<"t", "h", "i", "s">>,
  <<"t", "h", "r", "o", "w">>, <<"t", "h", "r", "o", "w", "s">>,
  <<"t", "r", "a", "n", "s", "i", "e", "n", "t">>, <<"t", "r", "u", "e">>, <<"t", "r", "y">>,
  <<"t", "y", "p", "e", "o", "f">>, <<"v", "a", "r">>, <<"v", "o", "i", "d">>,
  <<"v", "o", "l", "a", "t", "i", "l", "e">>, <<"w", "h", "i", "l", "e">>,
  <<"w", "i", "t", "h">>, <<"y", "i", "e", "l", "d">>, <<"a", "n", "y">>, <<"a", "s">>,
  <<"a", "s", "y", "n", "c">>, <<"a", "s", "s", "e", "r", "t", "s">>,
  <<"b", "i", "g", "i", "n", "t">>, <<"c", "o", "n", "s", "t", "r", "u", "c", "t", "o", "r">>,
  <<"d", "e", "c", "l", "a", "r", "e">>, <<"f", "r", "o", "m">>, <<"g", "e", "t">>,
  <<"i", "n", "f", "e", "r">>, <<"i", "s">>, <<"k", "e", "y", "o", "f">>,
  <<"m", "o", "d", "u", "l", "e">>, <<"n", "a", "m", "e", "s", "p", "a", "c", "e">>,
  <<"n", "e", "v", "e", "r">>, <<"r", "e", "a", "d", "o", "n", "l", "y">>,
  <<"r", "e", "q", "u", "i", "r", "e">>, <<"s", "e", "t">>, <<"s", "t", "r", "i", "n", "g">>,
  <<"s", "y", "m", "b", "o", "l">>, <<"t", "y", "p", "e">>,
  <<"u", "n", "d", "e", "f", "i", "n", "e", "d">>, <<"u", "n", "i", "q", "u", "e">>,
  <<"u", "n", "k", "n", "o", "w", "n">>, <<"u", "s", "i", "n", "g">>,
  <<"A", "r", "r", "a", "y">>, <<"B", "o", "o", "l", "e", "a", "n">>, <<"D", "a", "t", "e">>,
  <<"E", "r", "r", "o", "r">>, <<"F", "u", "n", "c", "t", "i", "o", "n">>,
  <<"J", "S", "O", "N">>, <<"M", "a", "t", "h">>, <<"N", "u", "m", "b", "e", "r">>,
  <<"O", "b", "j", "e", "c", "t">>, <<"P", "r", "o", "m", "i", "s", "e">>,
  <<"R", "e", "g", "E", "x", "p">>, <<"S", "t", "r", "i", "n", "g">>,
  <<"S", "y", "m", "b", "o", "l">>, <<"M", "a", "p">>, <<"S", "e", "t">>,
  <<"W", "e", "a", "k", "M", "a", "p">>, <<"W", "e", "a", "k", "S", "e", "t">>,
  <<"c", "o", "n", "s", "o", "l", "e">>, <<"w", "i", "n", "d", "o", "w">>,
  <<"d", "o", "c", "u", "m", "e", "n", "t">>, <<"p", "r", "o", "c", "e", "s", "s">>,
  <<"g", "l", "o", "b", "a", "l">>, <<"B", "u", "f", "f", "e", "r">>,
  <<"m", "o", "d", "u", "l", "e">>, <<"e", "x", "p", "o", "r", "t", "s">>,
  <<"r", "e", "q", "u", "i", "r", "e">>, <<"_", "_", "d", "i", "r", "n", "a", "m", "e">>,
  <<"_", "_", "f", "i", "l", "e", "n", "a", "m", "e">>}

is_reserved_keyword(word) == word \in KEYWORDS

sanitize_key(key) ==
  LET filtered == SelectSeq(key, LAMBDA ch : is_alphanumeric(ch) \/ ch = "_")
      prefixed == IF filtered # <<>> /\ is_numeric(filtered[1])
                  THEN <<"_">> \o filtered
                  ELSE filtered
  IN IF is_reserved_keyword(prefixed) THEN Append(prefixed, "_") ELSE prefixed

---------------------------------------------------------------------------
(* src/src/interpolations.rs *)

\* A faulty variant that C23 must tell apart: the span takes in the byte before
span_of_range_from_before(from, to) ==
  [offset |-> from - 1, length |-> IF to > from THEN to - from + 1 ELSE 1]

\* miette::SourceSpan from a Range, from (offset, length) and from an offset
span_of_range(from, to) == [offset |-> from, length |-> IF to > from THEN to - from ELSE 0]
span_of_pair(from, length) == [offset |-> from, length |-> length]
span_of_offset(from) == [offset |-> from, length |-> 0]

Ok(v) == [ok |-> TRUE, value |-> v]
Err(e) == [ok |-> FALSE, error |-> e]

\* A faulty variant that C21 must tell apart: an unknown type counts as none
InterpolationType_try_from_lenient(value) ==
  CASE value = str_string -> Ok("String")
    [] value = str_number -> Ok("Number")
    [] OTHER -> Ok("None")

InterpolationType_try_from(value) ==
  CASE value = str_string -> Ok("String")
    [] value = str_number -> Ok("Number")
    [] OTHER -> Err("unit")

\* A faulty variant that C2 must tell apart: the span starts at the brace
validate_interpolation_name_at_brace(start, name) ==
  IF name = <<>> THEN Err([kind |-> "Empty", at |-> span_of_offset(start)])
  ELSE IF ~is_valid_identifier(name)
       THEN Err([kind |-> "InvalidIdentifier", at |-> span_of_pair(start, len(name))])
       ELSE Ok("unit")

validate_interpolation_name(start, name) ==
  IF name = <<>> THEN Err([kind |-> "Empty", at |-> span_of_offset(start)])
  ELSE IF ~is_valid_identifier(name)
       THEN Err([kind |-> "InvalidIdentifier", at |-> span_of_pair(start + 1, len(name))])
       ELSE Ok("unit")

\* A faulty variant that C15 must tell apart: nothing is skipped
skip_until_close_at_once(str, from) == from

\* A faulty variant that C24 must tell apart: the closing brace is skipped too
RECURSIVE skip_until_close_through(_, _)
skip_until_close_through(str, from) ==
  IF from <= Len(str) /\ str[from] # "}" THEN skip_until_close_through(str, from + 1)
  ELSE IF from <= Len(str) THEN from + 1 ELSE from

\* while chars.peek().is_some_and(|&(_, c)| c != '}') { chars.next(); }
\* from is the index of the character peek() returns; the index it stops at
RECURSIVE skip_until_close(_, _)
skip_until_close(str, from) ==
  IF from <= Len(str) /\ str[from] # "}" THEN skip_until_close(str, from + 1) ELSE from

ParsedInterpolations_default == [interpolations |-> <<>>, errors |-> <<>>]

c == s[pos]
byte_index == byte_index_of(s, pos)
InLoop == pc = "scan" /\ pos <= Len(s)

\* if !s.contains('{') { return result; }
FastPath ==
  /\ pc = "parse"
  /\ ~contains(s, "{")
  /\ result' = ParsedInterpolations_default
  /\ pc' = "parsed"
  /\ UNCHANGED <<restVars, literal, s, scanVars, tmplVars, buildVars>>

ParseBegin ==
  /\ pc = "parse"
  /\ contains(s, "{")
  /\ result' = ParsedInterpolations_default
  /\ parsing_interpolation' = FALSE
  /\ start_byte_index' = 0
  /\ parsing_type' = FALSE
  /\ current_name' = <<>>
  /\ current_type' = <<>>
  /\ pos' = 1
  /\ pc' = "scan"
  /\ UNCHANGED <<restVars, literal, s, tmplVars, buildVars>>

\* c == '{' followed by '{': the escape sequence
ScanEscape ==
  /\ InLoop
  /\ c = "{"
  /\ pos + 1 <= Len(s) /\ s[pos + 1] = "{"
  /\ pos' = pos + 2
  /\ UNCHANGED <<restVars, literal, s, pc, parsing_interpolation, start_byte_index, parsing_type,
                 current_name, current_type, result, tmplVars, buildVars>>

\* c == '{' while parsing_interpolation: nested braces
ScanNested ==
  /\ InLoop
  /\ c = "{"
  /\ ~(pos + 1 <= Len(s) /\ s[pos + 1] = "{")
  /\ parsing_interpolation
  /\ LET stop == skip_until_close(s, pos + 1)
         offset == stop - (pos + 1)
     IN /\ pos' = stop
        /\ result' = [result EXCEPT !.errors = Append(@,
                        [kind |-> "InvalidIdentifier",
                         at |-> span_of_range(start_byte_index + 1, byte_index + offset)])]
  /\ parsing_interpolation' = FALSE
  /\ parsing_type' = FALSE
  /\ current_name' = <<>>
  /\ UNCHANGED <<restVars, literal, s, pc, start_byte_index, current_type, tmplVars, buildVars>>

\* c == '{' otherwise: an interpolation opens
ScanOpen ==
  /\ InLoop
  /\ c = "{"
  /\ ~(pos + 1 <= Len(s) /\ s[pos + 1] = "{")
  /\ ~parsing_interpolation
  /\ start_byte_index' = byte_index
  /\ parsing_interpolation' = TRUE
  /\ pos' = pos + 1
  /\ UNCHANGED <<restVars, literal, s, pc, parsing_type, current_name, current_type, result, tmplVars, buildVars>>

\* if !parsing_interpolation { continue; }
ScanText ==
  /\ InLoop
  /\ c # "{"
  /\ ~parsing_interpolation
  /\ pos' = pos + 1
  /\ UNCHANGED <<restVars, literal, s, pc, parsing_interpolation, start_byte_index, parsing_type,
                 current_name, current_type, result, tmplVars, buildVars>>

\* c == ':'
ScanColon ==
  /\ InLoop
  /\ c = ":"
  /\ parsing_interpolation
  /\ LET v == validate_interpolation_name(start_byte_index, current_name)
     IN IF ~v.ok
        THEN /\ pos' = skip_until_close(s, pos + 1)
             /\ result' = [result EXCEPT !.errors = Append(@, v.error)]
             /\ parsing_interpolation' = FALSE
             /\ current_name' = <<>>
             /\ UNCHANGED parsing_type
        ELSE /\ parsing_type' = TRUE
             /\ pos' = pos + 1
             /\ UNCHANGED <<result, parsing_interpolation, current_name>>
  /\ UNCHANGED <<restVars, literal, s, pc, start_byte_index, current_type, tmplVars, buildVars>>

\* c == '}': the end of the interpolation
ScanClose ==
  /\ InLoop
  /\ c = "}"
  /\ parsing_interpolation
  /\ pos' = pos + 1
  /\ LET t == InterpolationType_try_from(current_type)
         v == validate_interpolation_name(start_byte_index, current_name)
         typed == current_type # <<>>
         push(typename) ==
           /\ result' = [result EXCEPT !.interpolations = Append(@,
                           [name |-> current_name, start |-> start_byte_index,
                            end |-> byte_index, type_ |-> typename])]
           /\ parsing_interpolation' = FALSE
           /\ parsing_type' = FALSE
           /\ current_name' = <<>>
     IN CASE typed /\ ~t.ok ->
               /\ result' = [result EXCEPT !.errors = Append(@,
                               [kind |-> "InvalidType",
                                at |-> span_of_range(start_byte_index + len(current_name) + 2,
                                                     byte_index),
                                type_ |-> current_type])]
               /\ parsing_interpolation' = FALSE
               /\ parsing_type' = FALSE
               /\ current_name' = <<>>
               /\ current_type' = <<>>
          [] typed /\ t.ok ->
               /\ current_type' = <<>>
               /\ push(t.value)
          [] ~typed /\ ~v.ok ->
               /\ parsing_interpolation' = FALSE
               /\ parsing_type' = FALSE
               /\ current_name' = <<>>
               /\ result' = [result EXCEPT !.errors = Append(@, v.error)]
               /\ UNCHANGED current_type
          [] ~typed /\ v.ok ->
               /\ push("None")
               /\ UNCHANGED current_type
  /\ UNCHANGED <<restVars, literal, s, pc, start_byte_index, tmplVars, buildVars>>

\* if parsing_type { current_type.push(c); continue; }
ScanTypeChar ==
  /\ InLoop
  /\ c \notin {"{", ":", "}"}
  /\ parsing_interpolation
  /\ parsing_type
  /\ current_type' = Append(current_type, c)
  /\ pos' = pos + 1
  /\ UNCHANGED <<restVars, literal, s, pc, parsing_interpolation, start_byte_index, parsing_type,
                 current_name, result, tmplVars, buildVars>>

\* current_name.push(c);
ScanNameChar ==
  /\ InLoop
  /\ c \notin {"{", ":", "}"}
  /\ parsing_interpolation
  /\ ~parsing_type
  /\ current_name' = Append(current_name, c)
  /\ pos' = pos + 1
  /\ UNCHANGED <<restVars, literal, s, pc, parsing_interpolation, start_byte_index, parsing_type,
                 current_type, result, tmplVars, buildVars>>

\* the loop is over: an interpolation still open is unclosed
ParseEnd ==
  /\ pc = "scan"
  /\ pos > Len(s)
  /\ result' = IF parsing_interpolation
               THEN [result EXCEPT !.errors = Append(@,
                       [kind |-> "Unclosed",
                        at |-> span_of_range(start_byte_index + 1, len(s))])]
               ELSE result
  /\ pc' = "parsed"
  /\ UNCHANGED <<restVars, literal, s, scanVars, tmplVars, buildVars>>

---------------------------------------------------------------------------
(* src/src/parse.rs *)

\* fn validate_interpolation_name(name) of parse.rs
parse_validate_interpolation_name(name) ==
  IF name = <<>>
  THEN Err([kind |-> "InvalidInterpolationIdentifier", name |-> name])
  ELSE IF ~is_ascii_alphabetic(name[1])
       THEN Err([kind |-> "InvalidInterpolationIdentifier", name |-> name])
       ELSE IF ~\A i \in 2..Len(name) : is_ascii_alphanumeric(name[i]) \/ name[i] = "_"
            THEN Err([kind |-> "InvalidInterpolationIdentifier", name |-> name])
            ELSE Ok("unit")

\* impl TryFrom<&str> for InterpolationType of parse.rs
parse_InterpolationType_try_from(value) ==
  CASE value = str_string -> Ok("String")
    [] value = str_number -> Ok("Number")
    [] OTHER -> Err([kind |-> "UnknownType", type_ |-> value])

Translation_new(lit) == escape_translation(lit)

\* One run of the while loop of Translation::parse_interpolations from state st
RECURSIVE Translation_parse_loop(_, _)
Translation_parse_loop(str, st) ==
  IF st.pos > Len(str)
  THEN IF st.parsing_interpolation
       THEN Err([kind |-> "InvalidInterpolation", text |-> str])
       ELSE Ok(st.result)
  ELSE LET ch == str[st.pos]
           at == byte_index_of(str, st.pos)
           escape == st.pos + 1 <= Len(str) /\ str[st.pos + 1] = "{"
           next == [st EXCEPT !.pos = @ + 1]
           v == parse_validate_interpolation_name(st.current_name)
           t == parse_InterpolationType_try_from(st.current_type)
           push(typename) ==
             [next EXCEPT !.result = Append(@, [name |-> st.current_name,
                                               start |-> st.start_byte_index,
                                               end |-> at, type_ |-> typename]),
                          !.parsing_interpolation = FALSE,
                          !.parsing_type = FALSE,
                          !.current_name = <<>>,
                          !.current_type = <<>>]
       IN CASE ch = "{" /\ escape ->
                 Translation_parse_loop(str, [st EXCEPT !.pos = @ + 2])
            [] ch = "{" /\ ~escape /\ st.parsing_interpolation ->
                 Err([kind |-> "InvalidInterpolation", text |-> str])
            [] ch = "{" /\ ~escape /\ ~st.parsing_interpolation ->
                 Translation_parse_loop(str, [next EXCEPT !.start_byte_index = at,
                                                          !.parsing_interpolation = TRUE])
            [] ch # "{" /\ ~st.parsing_interpolation ->
                 Translation_parse_loop(str, next)
            [] ch = ":" /\ st.parsing_interpolation ->
                 IF ~v.ok THEN Err(v.error)
                 ELSE Translation_parse_loop(str, [next EXCEPT !.parsing_type = TRUE])
            [] ch = "}" /\ st.parsing_interpolation ->
                 IF st.current_type # <<>>
                 THEN IF ~t.ok THEN Err([kind |-> "InterpolationError", source |-> t.error])
                      ELSE Translation_parse_loop(str, push(t.value))
                 ELSE IF ~v.ok THEN Err(v.error)
                      ELSE Translation_parse_loop(str, push("None"))
            [] ch \notin {"{", ":", "}"} /\ st.parsing_interpolation /\ st.parsing_type ->
                 Translation_parse_loop(str, [next EXCEPT !.current_type = Append(@, ch)])
            [] ch \notin {"{", ":", "}"} /\ st.parsing_interpolation /\ ~st.parsing_type ->
                 Translation_parse_loop(str, [next EXCEPT !.current_name = Append(@, ch)])

Translation_parse_interpolations(str) ==
  Translation_parse_loop(str, [pos |-> 1, parsing_interpolation |-> FALSE,
                               start_byte_index |-> 0, parsing_type |-> FALSE,
                               current_name |-> <<>>, current_type |-> <<>>,
                               result |-> <<>>])

\* Key: equality and order are those of the literal, so a map keyed by Key is a
\* function on literals; Key::new gives the sanitized field
Key_new(lit) == [literal |-> lit, sanitized |-> sanitize_key(lit)]

CodeOf(ch) == CHOOSE i \in 1..Len(CodeOrder) : CodeOrder[i] = ch

\* String::cmp: a < b
RECURSIVE str_lt(_, _)
str_lt(a, b) ==
  CASE b = <<>> -> FALSE
    [] a = <<>> -> TRUE
    [] Head(a) = Head(b) -> str_lt(Tail(a), Tail(b))
    [] OTHER -> CodeOf(Head(a)) < CodeOf(Head(b))

\* BTreeMap iteration: the keys of a map in ascending order
RECURSIVE btree_keys(_)
btree_keys(S) ==
  IF S = {} THEN <<>>
  ELSE LET least == CHOOSE k \in S : \A o \in S \ {k} : str_lt(k, o)
       IN <<least>> \o btree_keys(S \ {least})

Message_default == [translation |-> <<>>, interpolations |-> <<>>]

None == [kind |-> "None"]
Some(v) == [kind |-> "Some", value |-> v]
Panic == [kind |-> "Panic"]

\* A faulty variant that C8 must tell apart: the ranges of other locales count
collect_interpolations_any_locale(message, locale) ==
  LET keys == btree_keys(DOMAIN message.interpolations)
  IN [i \in 1..Len(keys) |->
        LET ranges == message.interpolations[keys[i]].ranges
            l == IF locale \in DOMAIN ranges THEN locale
                 ELSE CHOOSE other \in DOMAIN ranges : TRUE
        IN [key |-> Key_new(keys[i]), range |-> ranges[l]]]

\* self.interpolations.iter().filter_map(...).collect(): (key, range) pairs
collect_interpolations(message, locale) ==
  LET keys == btree_keys(DOMAIN message.interpolations)
      has(k) == locale \in DOMAIN message.interpolations[k].ranges
      kept == SelectSeq(keys, has)
  IN [i \in 1..Len(kept) |->
        [key |-> Key_new(kept[i]), range |-> message.interpolations[kept[i]].ranges[locale]]]

\* Vec::sort_by_key(start): a stable sort
RECURSIVE sort_by_start(_)
sort_by_start(v) ==
  IF v = <<>> THEN <<>>
  ELSE LET i == CHOOSE i \in 1..Len(v) :
                  /\ \A j \in 1..Len(v) : v[i].range[1] <= v[j].range[1]
                  /\ \A j \in 1..(i - 1) : v[j].range[1] # v[i].range[1]
       IN <<v[i]>> \o sort_by_start(SubSeq(v, 1, i - 1) \o SubSeq(v, i + 1, Len(v)))

\* A faulty variant that C7 must tell apart: the vector is left in ascending order
reverse_skipped(v) == v

reverse(v) == [i \in 1..Len(v) |-> v[Len(v) + 1 - i]]

is_char_boundary(str, at) == \E i \in 1..(Len(str) + 1) : byte_index_of(str, i) = at
char_at_byte(str, at) == CHOOSE i \in 1..(Len(str) + 1) : byte_index_of(str, i) = at

\* String::replace_range(start..=end, with): Err when it panics (the range is
\* out of bounds, reversed or not on character boundaries)
replace_range(str, start, end, with) ==
  IF start <= end + 1 /\ end + 1 <= len(str)
     /\ is_char_boundary(str, start) /\ is_char_boundary(str, end + 1)
  THEN Ok(SubSeq(str, 1, char_at_byte(str, start) - 1) \o with
          \o SubSeq(str, char_at_byte(str, end + 1), Len(str)))
  ELSE Err("panic")

\* A faulty variant that C3 must tell apart: "}}" is collapsed as well
RECURSIVE replace_escapes_both(_)
replace_escapes_both(str) ==
  IF Len(str) < 2 THEN str
  ELSE IF str[1] = str[2] /\ str[1] \in {"{", "}"}
       THEN <<str[1]>> \o replace_escapes_both(SubSeq(str, 3, Len(str)))
       ELSE <<str[1]>> \o replace_escapes_both(Tail(str))

\* str::replace("{{", "{"): the matches are found left to right and do not overlap
RECURSIVE replace_escapes(_)
replace_escapes(str) ==
  IF Len(str) < 2 THEN str
  ELSE IF str[1] = "{" /\ str[2] = "{"
       THEN <<"{">> \o replace_escapes(SubSeq(str, 3, Len(str)))
       ELSE <<str[1]>> \o replace_escapes(Tail(str))

template_var(key) == <<"$", "{", "a", "r", "g", "s", ".">> \o key.sanitized \o <<"}">>

\* for (key, (start, end)) in interpolations { result.replace_range(..) }
RECURSIVE replace_each(_, _)
replace_each(res, v) ==
  IF v = <<>> \/ ~res.ok THEN res
  ELSE replace_each(replace_range(res.value, Head(v).range[1], Head(v).range[2],
                                  template_var(Head(v).key)),
                    Tail(v))

\* template_for_locale from the collected vector on
template_from(translation, collected) ==
  LET replaced == replace_each(Ok(translation), reverse(sort_by_start(collected)))
  IN IF ~replaced.ok THEN Panic ELSE Some(replace_escapes(replaced.value))

template_for_locale(message, locale) ==
  IF locale \notin DOMAIN message.translation THEN None
  ELSE template_from(message.translation[locale], collect_interpolations(message, locale))

\* message.interpolations.insert(Key::new(&interp.name), interpolation_obj) for
\* every parsed interpolation, each with the one range of locale
RECURSIVE insert_parsed(_, _, _)
insert_parsed(map, parsed, locale) ==
  IF parsed = <<>> THEN map
  ELSE LET interp == Head(parsed)
           obj == [type_ |-> interp.type_,
                   ranges |-> (locale :> <<interp.start, interp.end>>)]
       IN insert_parsed((interp.name :> obj) @@ map, Tail(parsed), locale)

\* Result::unwrap_or_default
unwrap_or_default(res) == IF res.ok THEN res.value ELSE <<>>

\* The generate closure of the template tests: a message with the one
\* translation and the interpolations found in it, materialized
Generate ==
  /\ pc = "parsed"
  /\ LET translation == Translation_new(literal)
         interpolations == unwrap_or_default(Translation_parse_interpolations(translation))
         built == [translation |-> ("en" :> translation),
                   interpolations |-> insert_parsed(<<>>, interpolations, "en")]
     IN /\ msg' = built
        /\ loc' = "en"
        /\ template' = template_for_locale(built, "en")
  /\ pc' = "done"
  /\ UNCHANGED <<restVars, literal, s, scanVars, result, buildVars>>

---------------------------------------------------------------------------
(* src/src/parse.rs: the module tree builder *)

\* toml::Value: a string, a table (its entries in iteration order) or another shape
String_(text) == [tag |-> "String", text |-> text]
Table_(entries) == [tag |-> "Table", entries |-> entries]
Integer_ == [tag |-> "Integer"]
Entry(key, value) == [key |-> key, value |-> value]

\* Value::type_str
type_str(value) ==
  CASE value.tag = "String" -> "string"
    [] value.tag = "Integer" -> "integer"
    [] value.tag = "Table" -> "table"

Module_(ms, mods) == [messages |-> ms, modules |-> mods]

\* map.insert(key, value)
insert(map, key, value) == (key :> value) @@ map

\* A faulty variant that C9 must tell apart: the entry of the placeholder is
\* made anew for every locale, so the ranges of the locales before are lost
RECURSIVE merge_interpolations_anew(_, _, _)
merge_interpolations_anew(interpolations, parsed, locale) ==
  IF parsed = <<>> THEN [ok |-> TRUE, interpolations |-> interpolations]
  ELSE LET interpolation == Head(parsed)
           key == Key_new(interpolation.name)
           entry == [type_ |-> interpolation.type_, ranges |-> <<>>]
           ranged == [entry EXCEPT !.ranges =
                        insert(@, locale, <<interpolation.start, interpolation.end>>)]
           merged == insert(interpolations, key.literal, ranged)
       IN merge_interpolations_anew(merged, Tail(parsed), locale)

\* The loop of build_module with the end of the range taken one past the
\* closing brace
RECURSIVE merge_interpolations_past_end(_, _, _)
merge_interpolations_past_end(interpolations, parsed, locale) ==
  IF parsed = <<>> THEN [ok |-> TRUE, interpolations |-> interpolations]
  ELSE LET interpolation == Head(parsed)
           key == Key_new(interpolation.name)
           entry == IF key.literal \in DOMAIN interpolations
                    THEN interpolations[key.literal]
                    ELSE [type_ |-> interpolation.type_, ranges |-> <<>>]
           ranged == [entry EXCEPT !.ranges =
                        insert(@, locale, <<interpolation.start, interpolation.end + 1>>)]
           merged == insert(interpolations, key.literal, ranged)
       IN IF interpolation.type_ # ranged.type_
          THEN [ok |-> FALSE, interpolations |-> merged]
          ELSE merge_interpolations_past_end(merged, Tail(parsed), locale)

\* for interpolation in interpolations { ... } of build_module: the message's
\* interpolations map afterwards, and whether the loop ran to its end
RECURSIVE merge_interpolations(_, _, _)
merge_interpolations(interpolations, parsed, locale) ==
  IF parsed = <<>> THEN [ok |-> TRUE, interpolations |-> interpolations]
  ELSE LET interpolation == Head(parsed)
           key == Key_new(interpolation.name)
           entry == IF key.literal \in DOMAIN interpolations
                    THEN interpolations[key.literal]
                    ELSE [type_ |-> interpolation.type_, ranges |-> <<>>]
           ranged == [entry EXCEPT !.ranges =
                        insert(@, locale, <<interpolation.start, interpolation.end>>)]
           merged == insert(interpolations, key.literal, ranged)
       IN IF interpolation.type_ # ranged.type_
          THEN [ok |-> FALSE, interpolations |-> merged]
          ELSE merge_interpolations(merged, Tail(parsed), locale)

\* A faulty variant that C26 must tell apart: the strings of a table are written
\* into the messages of the parent
RECURSIVE build_entries_into_parent(_, _, _, _, _)
build_entries_into_parent(locale, entries, i, ms, mods) ==
  IF i > Len(entries) THEN [ok |-> TRUE, messages |-> ms, modules |-> mods]
  ELSE
    LET key == Key_new(entries[i].key)
        value == entries[i].value
        failed(e, ms2, mods2) ==
          [ok |-> FALSE, error |-> e, messages |-> ms2, modules |-> mods2]
    IN CASE value.tag = "String" ->
              LET message == IF key.literal \in DOMAIN ms THEN ms[key.literal]
                             ELSE Message_default
                  translation == Translation_new(value.text)
                  interpolations == Translation_parse_interpolations(translation)
                  translated == [message EXCEPT !.translation =
                                   insert(@, locale, Translation_new(value.text))]
                  merged == merge_interpolations(translated.interpolations,
                                                 interpolations.value, locale)
                  done == [translated EXCEPT !.interpolations = merged.interpolations]
              IN IF ~interpolations.ok
                 THEN failed(interpolations.error, insert(ms, key.literal, message), mods)
                 ELSE IF ~merged.ok
                      THEN failed([kind |-> "InterpolationTypeMismatch"],
                                  insert(ms, key.literal, done), mods)
                      ELSE build_entries_into_parent(locale, entries, i + 1,
                                         insert(ms, key.literal, done), mods)
         [] value.tag = "Table" ->
              LET module == IF key.literal \in DOMAIN mods THEN mods[key.literal]
                            ELSE Module_(<<>>, <<>>)
                  inner == build_entries_into_parent(locale, value.entries, 1,
                                                     ms, module.modules)
                  mods2 == insert(mods, key.literal, Module_(module.messages, inner.modules))
              IN IF ~inner.ok THEN failed(inner.error, inner.messages, mods2)
                 ELSE build_entries_into_parent(locale, entries, i + 1, inner.messages, mods2)
         [] OTHER ->
              failed([kind |-> "UnsupportedValueType", path |-> key.literal,
                      typename |-> type_str(value)], ms, mods)

\* build_module from entry i of the table on. Returns the two maps as they are
\* when it returns, and the error when it returns one.
RECURSIVE build_entries(_, _, _, _, _)
build_entries(locale, entries, i, ms, mods) ==
  IF i > Len(entries) THEN [ok |-> TRUE, messages |-> ms, modules |-> mods]
  ELSE
    LET key == Key_new(entries[i].key)
        value == entries[i].value
        failed(e, ms2, mods2) ==
          [ok |-> FALSE, error |-> e, messages |-> ms2, modules |-> mods2]
    IN CASE value.tag = "String" ->
              LET message == IF key.literal \in DOMAIN ms THEN ms[key.literal]
                             ELSE Message_default
                  translation == Translation_new(value.text)
                  interpolations == Translation_parse_interpolations(translation)
                  translated == [message EXCEPT !.translation =
                                   insert(@, locale, Translation_new(value.text))]
                  merged == merge_interpolations(translated.interpolations,
                                                 interpolations.value, locale)
                  done == [translated EXCEPT !.interpolations = merged.interpolations]
              IN IF ~interpolations.ok
                 THEN failed(interpolations.error, insert(ms, key.literal, message), mods)
                 ELSE IF ~merged.ok
                      THEN failed([kind |-> "InterpolationTypeMismatch"],
                                  insert(ms, key.literal, done), mods)
                      ELSE build_entries(locale, entries, i + 1,
                                         insert(ms, key.literal, done), mods)
         [] value.tag = "Table" ->
              LET module == IF key.literal \in DOMAIN mods THEN mods[key.literal]
                            ELSE Module_(<<>>, <<>>)
                  inner == build_entries(locale, value.entries, 1,
                                         module.messages, module.modules)
                  mods2 == insert(mods, key.literal, Module_(inner.messages, inner.modules))
              IN IF ~inner.ok THEN failed(inner.error, ms, mods2)
                 ELSE build_entries(locale, entries, i + 1, ms, mods2)
         [] OTHER ->
              failed([kind |-> "UnsupportedValueType", path |-> key.literal,
                      typename |-> type_str(value)], ms, mods)

build_module(locale, table, ms, mods) == build_entries(locale, table.entries, 1, ms, mods)

Running == [kind |-> "Running"]

\* build_flat_module, one iteration of for (locale, value) in locales: the
\* root of the locale is no table
BuildRootNotTable(l) ==
  /\ ret = Running
  /\ l \in remaining
  /\ locales[l].tag # "Table"
  /\ ret' = Err([kind |-> "RootNotTable"])
  /\ remaining' = remaining \ {l}
  /\ UNCHANGED <<restVars, locales, messages, modules, diagnostics, parseVars, tmplVars>>

\* ... build_module(&locale, root, &mut messages, &mut modules) returns Ok
BuildLocale(l) ==
  /\ ret = Running
  /\ l \in remaining
  /\ locales[l].tag = "Table"
  /\ LET r == build_module(l, locales[l], messages, modules)
     IN /\ r.ok
        /\ messages' = r.messages
        /\ modules' = r.modules
  /\ remaining' = remaining \ {l}
  /\ UNCHANGED <<restVars, locales, ret, diagnostics, parseVars, tmplVars>>

\* ... build_module returns an error, which build_flat_module returns
BuildLocaleFails(l) ==
  /\ ret = Running
  /\ l \in remaining
  /\ locales[l].tag = "Table"
  /\ LET r == build_module(l, locales[l], messages, modules)
     IN /\ ~r.ok
        /\ messages' = r.messages
        /\ modules' = r.modules
        /\ ret' = Err(r.error)
  /\ remaining' = remaining \ {l}
  /\ UNCHANGED <<restVars, locales, diagnostics, parseVars, tmplVars>>

\* Ok(Module { messages, modules })
BuildReturn ==
  /\ ret = Running
  /\ remaining = {}
  /\ ret' = Ok(Module_(messages, modules))
  /\ UNCHANGED <<restVars, locales, remaining, messages, modules, diagnostics, parseVars, tmplVars>>

\* build_flat_module as a whole, the HashMap iterated in the order given
RECURSIVE build_flat_from(_, _, _, _, _)
build_flat_from(locs, order, i, ms, mods) ==
  IF i > Len(order) THEN Ok(Module_(ms, mods))
  ELSE IF locs[order[i]].tag # "Table" THEN Err([kind |-> "RootNotTable"])
       ELSE LET r == build_module(order[i], locs[order[i]], ms, mods)
            IN IF ~r.ok THEN Err(r.error)
               ELSE build_flat_from(locs, order, i + 1, r.messages, r.modules)

build_flat_module(locs, order) == build_flat_from(locs, order, 1, <<>>, <<>>)

---------------------------------------------------------------------------
(* Inputs *)

SeqsUpTo(S, n) == UNION {[1..k -> S] : k \in 0..n}

RECURSIVE Flatten(_)
Flatten(ss) == IF ss = <<>> THEN <<>> ELSE Head(ss) \o Flatten(Tail(ss))

NameChars == {"a", "1", "_", "-", UnicodeLetter}
Names == SeqsUpTo(NameChars, MaxNameLen)

Suffixes == {<<>>, <<":">> \o str_string, <<":">> \o str_number, <<":">>, <<":", "a">>,
             <<":", UnicodeLetter, "1">>}
Token(n, suffix) == <<"{">> \o n \o suffix \o <<"}">>

XAtoms == {<<"a">>, <<":">>, <<Backtick>>, <<"$">>, <<"{", "{">>}
XTexts == {Flatten(x) : x \in SeqsUpTo(XAtoms, MaxAtoms)}
Escaped(x) == <<"{", "{">> \o x \o <<"}", "}">>

TextChars == {"{", "}", ":", "a"}
Texts == SeqsUpTo(TextChars, MaxLen)

\* A block with a brace inside an open interpolation, in the name or in the
\* type, and a well-formed placeholder after it
NestedBlocks == {<<"{", "a", "{", "a", "}">>, <<"{", "a", ":", "a", "{", "a", "}">>}
Followers == {Token(<<"n">>, x) : x \in {<<>>, <<":">> \o str_string, <<":">> \o str_number}}
NestedInputs == {block \o follower : block \in NestedBlocks, follower \in Followers}

\* "{{" met while an interpolation is open
EscapeInsideInputs ==
  {<<"{", "a", "{", "{", "a", "}">>, <<"{", "a", "{", "{", ":">> \o str_string \o <<"}">>}

\* "{a{b}}"
NestedNames == SeqsUpTo(NameChars, MaxNestedLen)
DoubleNested(a, b) == <<"{">> \o a \o <<"{">> \o b \o <<"}", "}">>
DoubleNestedInputs == {DoubleNested(a, b) : a, b \in NestedNames}

\* Runs of well-formed placeholders, each after a brace-free text
Separators == {<<>>, <<"a", ":">>, <<UnicodeLetter>>}
Placeholders ==
  {[name |-> <<"a">>, suffix |-> <<>>],
   [name |-> <<"a", "1">>, suffix |-> <<":">> \o str_string],
   [name |-> <<"a", "_">>, suffix |-> <<":">> \o str_number]}
RunItems ==
  {[sep |-> x, name |-> p.name, suffix |-> p.suffix] : x \in Separators, p \in Placeholders}
Runs == SeqsUpTo(RunItems, MaxPlaceholders)
RunText(run) == Flatten([i \in 1..Len(run) |-> run[i].sep \o Token(run[i].name, run[i].suffix)])

Inputs == {Token(n, x) : n \in Names, x \in Suffixes}
          \cup {RunText(run) : run \in Runs}
          \cup {Escaped(x) : x \in XTexts}
          \cup Texts
          \cup NestedInputs
          \cup DoubleNestedInputs
          \cup EscapeInsideInputs

---------------------------------------------------------------------------

NotRun == [kind |-> "NotRun"]
Diagnostics_default == [file_diagnostics |-> <<>>, interpolation_type_mismatches |-> <<>>]

BuildIdle ==
  /\ locales = <<>>
  /\ remaining = {}
  /\ messages = <<>>
  /\ modules = <<>>
  /\ ret = NotRun
  /\ diagnostics = Diagnostics_default

TemplateIdle ==
  /\ msg = Message_default
  /\ loc = "en"
  /\ template = NotRun

NamespacedIdle ==
  /\ namespaces = <<>>
  /\ ns_remaining = {}
  /\ ns_modules = <<>>
  /\ ns_ret = NotRun

CollectIdle ==
  /\ dir = {}
  /\ unread = {}
  /\ files = <<>>
  /\ collect_ret = NotRun

RestIdle == NamespacedIdle /\ CollectIdle /\ recorded = 0 /\ made_key = NotRun

Init ==
  /\ literal \in Inputs
  /\ s = escape_translation(literal)
  /\ pc = "parse"
  /\ pos = 1
  /\ parsing_interpolation = FALSE
  /\ start_byte_index = 0
  /\ parsing_type = FALSE
  /\ current_name = <<>>
  /\ current_type = <<>>
  /\ result = ParsedInterpolations_default
  /\ BuildIdle
  /\ TemplateIdle
  /\ RestIdle

Next ==
  \/ FastPath
  \/ ParseBegin
  \/ ScanEscape
  \/ ScanNested
  \/ ScanOpen
  \/ ScanText
  \/ ScanColon
  \/ ScanClose
  \/ ScanTypeChar
  \/ ScanNameChar
  \/ ParseEnd
  \/ Generate

Spec == Init /\ [][Next]_vars

\* A step of parse_interpolations
ParseStep ==
  \/ FastPath
  \/ ParseBegin
  \/ ScanEscape
  \/ ScanNested
  \/ ScanOpen
  \/ ScanText
  \/ ScanColon
  \/ ScanClose
  \/ ScanTypeChar
  \/ ScanNameChar
  \/ ParseEnd

\* The call runs on: a step of the parser that can be taken is taken
SpecFair == Spec /\ WF_vars(ParseStep)

---------------------------------------------------------------------------
(* The build of a set of locale tables *)

NumLocales == 2

LocaleNames == <<"en", "fr", "de", "es", "it">>
Locales == {LocaleNames[i] : i \in 1..NumLocales}

K == <<"k">>
M == <<"m">>
N == <<"n">>
S_n == Token(N, <<>>)
S_an == <<"a">> \o S_n
S_num == Token(N, <<":">> \o str_number)
S_str == Token(N, <<":">> \o str_string)
S_dup == S_n \o S_n
S_mixed == S_n \o S_num
S_open == <<"{">>
S_hi == <<"h", "i">>

StrValues == {S_n, S_an, S_num, S_str, S_dup, S_mixed, S_open, S_hi}
Leaves == {String_(x) : x \in StrValues} \cup {Integer_}
NestedLeaves == {String_(S_n), String_(S_num), Integer_}
PairLeaves == {String_(S_hi), String_(S_open), Integer_}
Single(key, value) == Table_(<<Entry(key, value)>>)

RootValues ==
  {Table_(<<>>), Integer_}
  \cup {Single(K, v) : v \in Leaves}
  \cup {Single(K, Single(K, v)) : v \in NestedLeaves}
  \cup {Table_(<<Entry(K, v), Entry(M, w)>>) : v \in PairLeaves, w \in PairLeaves}
  \cup {Table_(<<Entry(M, w), Entry(K, v)>>) : v \in PairLeaves, w \in PairLeaves}
  \cup {Table_(<<Entry(M, String_(S_hi)), Entry(K, Single(M, String_(S_n)))>>),
        Table_(<<Entry(K, Single(M, String_(S_an))), Entry(M, String_(S_hi))>>),
        Single(K, Single(M, Single(K, String_(S_n))))}

ParseIdle ==
  /\ literal = <<>>
  /\ s = <<>>
  /\ pc = "idle"
  /\ pos = 1
  /\ parsing_interpolation = FALSE
  /\ start_byte_index = 0
  /\ parsing_type = FALSE
  /\ current_name = <<>>
  /\ current_type = <<>>
  /\ result = ParsedInterpolations_default

InitBuild ==
  /\ \E D \in SUBSET Locales : locales \in [D -> RootValues]
  /\ remaining = DOMAIN locales
  /\ messages = <<>>
  /\ modules = <<>>
  /\ ret = Running
  /\ diagnostics = Diagnostics_default
  /\ ParseIdle
  /\ TemplateIdle
  /\ RestIdle

NextBuild ==
  \/ \E l \in Locales : BuildRootNotTable(l)
  \/ \E l \in Locales : BuildLocale(l)
  \/ \E l \in Locales : BuildLocaleFails(l)
  \/ BuildReturn

SpecBuild == InitBuild /\ [][NextBuild]_vars

---------------------------------------------------------------------------
(* Messages put together by hand and materialized, as the template tests do *)

MaxText == 2
MaxByte == 3

TemplateChars == {"a", "{", UnicodeLetter, Backtick}
TemplateLiterals == SeqsUpTo(TemplateChars, MaxText)
TemplateNames == {<<"a">>, <<"1", "-">>}
TemplateRanges == {<<start, end>> : start \in 0..MaxByte, end \in 0..MaxByte} \ 
                  {<<start, end>> \in (0..MaxByte) \X (0..MaxByte) : start > end}

\* message.translation.insert(locale.clone(), Translation::new(..))
InsertTranslation(lit) ==
  /\ pc = "arrange"
  /\ "en" \notin DOMAIN msg.translation
  /\ msg' = [msg EXCEPT !.translation = insert(@, "en", Translation_new(lit))]
  /\ UNCHANGED <<restVars, literal, s, pc, scanVars, result, buildVars, loc, template>>

\* let mut interp = Interpolation::default();
\* interp.ranges.insert(locale.clone(), (start, end));
\* message.interpolations.insert(Key::new(name), interp);
InsertInterpolation(name, l, range) ==
  /\ pc = "arrange"
  /\ name \notin DOMAIN msg.interpolations
  /\ LET interp == [type_ |-> "None", ranges |-> insert(<<>>, l, range)]
     IN msg' = [msg EXCEPT !.interpolations = insert(@, Key_new(name).literal, interp)]
  /\ UNCHANGED <<restVars, literal, s, pc, scanVars, result, buildVars, loc, template>>

\* let result = message.template_for_locale(&locale);
Materialize(l) ==
  /\ pc = "arrange"
  /\ loc' = l
  /\ template' = template_for_locale(msg, l)
  /\ pc' = "materialized"
  /\ UNCHANGED <<restVars, literal, s, scanVars, result, buildVars, msg>>

InitTemplate ==
  /\ literal = <<>>
  /\ s = <<>>
  /\ pc = "arrange"
  /\ pos = 1
  /\ parsing_interpolation = FALSE
  /\ start_byte_index = 0
  /\ parsing_type = FALSE
  /\ current_name = <<>>
  /\ current_type = <<>>
  /\ result = ParsedInterpolations_default
  /\ BuildIdle
  /\ TemplateIdle
  /\ RestIdle

NextTemplate ==
  \/ \E lit \in TemplateLiterals : InsertTranslation(lit)
  \/ \E name \in TemplateNames, l \in Locales, range \in TemplateRanges :
       InsertInterpolation(name, l, range)
  \/ \E l \in Locales : Materialize(l)

SpecTemplate == InitTemplate /\ [][NextTemplate]_vars

---------------------------------------------------------------------------
(* The build of namespaced files *)

Namespaces == {<<"a">>, <<"i", "f">>}
NamespaceRoots ==
  {Integer_, Single(K, String_(S_n)), Single(K, String_(S_num)), Single(K, Integer_)}
NamespaceLocales == UNION {[D -> NamespaceRoots] : D \in SUBSET Locales}

\* The orders a HashMap with these keys may be iterated in
IterationOrders(D) ==
  {order \in [1..Cardinality(D) -> D] :
     \A i \in 1..Cardinality(D), j \in 1..Cardinality(D) : order[i] = order[j] => i = j}

\* let key = Key::new(&namespace); modules.insert(key, module);
nest_sanitized(mods, namespace, module) == insert(mods, Key_new(namespace).sanitized, module)

nest(mods, namespace, module) == insert(mods, Key_new(namespace).literal, module)

\* build_namespaced_module, one iteration of for (namespace, locales) in
\* namespaces: build_flat_module(locales) returns a Module
NsBuild(namespace, order) ==
  /\ ns_ret = Running
  /\ namespace \in ns_remaining
  /\ LET module == build_flat_module(namespaces[namespace], order)
     IN /\ module.ok
        /\ ns_modules' = nest(ns_modules, namespace, module.value)
  /\ ns_remaining' = ns_remaining \ {namespace}
  /\ UNCHANGED <<namespaces, ns_ret, parseVars, buildVars, tmplVars, collectVars, recorded, made_key>>

\* ... build_flat_module(locales)? returns the error
NsBuildFails(namespace, order) ==
  /\ ns_ret = Running
  /\ namespace \in ns_remaining
  /\ LET module == build_flat_module(namespaces[namespace], order)
     IN /\ ~module.ok
        /\ ns_ret' = module
  /\ ns_remaining' = ns_remaining \ {namespace}
  /\ UNCHANGED <<namespaces, ns_modules, parseVars, buildVars, tmplVars, collectVars, recorded, made_key>>

\* Ok(Module { messages: BTreeMap::new(), modules })
NsReturn ==
  /\ ns_ret = Running
  /\ ns_remaining = {}
  /\ ns_ret' = Ok(Module_(<<>>, ns_modules))
  /\ UNCHANGED <<namespaces, ns_remaining, ns_modules, parseVars, buildVars, tmplVars,
                 collectVars, recorded, made_key>>

InitNamespaced ==
  /\ \E D \in SUBSET Namespaces : namespaces \in [D -> NamespaceLocales]
  /\ ns_remaining = DOMAIN namespaces
  /\ ns_modules = <<>>
  /\ ns_ret = Running
  /\ ParseIdle
  /\ BuildIdle
  /\ TemplateIdle
  /\ CollectIdle
  /\ recorded = 0
  /\ made_key = NotRun

NextNamespaced ==
  \/ \E namespace \in ns_remaining :
       \E order \in IterationOrders(DOMAIN namespaces[namespace]) : NsBuild(namespace, order)
  \/ \E namespace \in ns_remaining :
       \E order \in IterationOrders(DOMAIN namespaces[namespace]) : NsBuildFails(namespace, order)
  \/ NsReturn

SpecNamespaced == InitNamespaced /\ [][NextNamespaced]_vars

---------------------------------------------------------------------------
(* src/src/context.rs: the diagnostics accumulator *)

MaxRecorded == 3

\* Vec<&str>::join(".")
RECURSIVE join(_)
join(parts) ==
  IF parts = <<>> THEN <<>>
  ELSE IF Len(parts) = 1 THEN parts[1]
       ELSE parts[1] \o <<".">> \o join(Tail(parts))

\* Context::path_at
path_at(key_path, key) == join(Append(key_path, key))

\* A faulty variant that C13 must tell apart: the type mismatches do not count
is_empty_of_files(d) == d.file_diagnostics = <<>>

\* Diagnostics::is_empty
is_empty(d) == d.file_diagnostics = <<>> /\ d.interpolation_type_mismatches = <<>>

\* map.entry(key).or_default()
or_default(map, key, default) == IF key \in DOMAIN map THEN map[key] ELSE default

\* The Context a call is made on: its locale, file path and key path
Context_(locale, normalized_file_path, key_path) ==
  [locale |-> locale, normalized_file_path |-> normalized_file_path, key_path |-> key_path]

\* Context::add_key_diagnostics, on the file_diagnostics map
add_key_diagnostics(all, ctx, key, diagnostic) ==
  LET file == <<ctx.locale, ctx.normalized_file_path>>
      file_diagnostics == or_default(all, file, <<>>)
  IN insert(all, file, insert(file_diagnostics, path_at(ctx.key_path, key), diagnostic))

\* Context::add_interpolation_type_mismatches, on the interpolation_type_mismatches map
RECURSIVE add_interpolation_type_mismatches(_, _, _, _)
add_interpolation_type_mismatches(all, ctx, key, mismatches) ==
  IF mismatches = <<>> THEN all
  ELSE LET name == Head(mismatches).name
           found == Head(mismatches).found
           existing == Head(mismatches).existing
           at == <<path_at(ctx.key_path, key), name>>
           entry == or_default(all, at, {})
           added == entry \cup {<<l, existing.type_>> : l \in DOMAIN existing.ranges}
                          \cup {<<ctx.locale, found>>}
       IN add_interpolation_type_mismatches(insert(all, at, added), ctx, key, Tail(mismatches))

DiagnosticLocales == {"en", "fr"}
Contexts == {Context_(l, <<"f">>, key_path) : l \in DiagnosticLocales, key_path \in {<<>>, <<K>>}}
KeyDiagnostics == {[kind |-> "UnsupportedValueType", value_type |-> "integer"]}
Mismatch(name, found, existing) == [name |-> name, found |-> found, existing |-> existing]
ExistingInterpolations ==
  {[type_ |-> "None", ranges |-> ("en" :> <<0, 2>>)],
   [type_ |-> "Number", ranges |-> ("en" :> <<0, 9>>) @@ ("fr" :> <<1, 10>>)]}
MismatchLists ==
  {<<>>} \cup {<<Mismatch(N, found, existing)>> :
                 found \in {"String", "Number"}, existing \in ExistingInterpolations}

AddKeyDiagnostics(ctx, key, diagnostic) ==
  /\ pc = "diagnostics"
  /\ recorded < MaxRecorded
  /\ diagnostics' = [diagnostics EXCEPT !.file_diagnostics =
                       add_key_diagnostics(@, ctx, key, diagnostic)]
  /\ recorded' = recorded + 1
  /\ UNCHANGED <<parseVars, locales, remaining, messages, modules, ret, tmplVars,
                 nsVars, collectVars, made_key>>

AddInterpolationTypeMismatches(ctx, key, mismatches) ==
  /\ pc = "diagnostics"
  /\ recorded < MaxRecorded
  /\ diagnostics' = [diagnostics EXCEPT !.interpolation_type_mismatches =
                       add_interpolation_type_mismatches(@, ctx, key, mismatches)]
  /\ recorded' = recorded + Len(mismatches)
  /\ UNCHANGED <<parseVars, locales, remaining, messages, modules, ret, tmplVars,
                 nsVars, collectVars, made_key>>

InitDiagnostics ==
  /\ literal = <<>>
  /\ s = <<>>
  /\ pc = "diagnostics"
  /\ pos = 1
  /\ parsing_interpolation = FALSE
  /\ start_byte_index = 0
  /\ parsing_type = FALSE
  /\ current_name = <<>>
  /\ current_type = <<>>
  /\ result = ParsedInterpolations_default
  /\ BuildIdle
  /\ TemplateIdle
  /\ RestIdle

NextDiagnostics ==
  \/ \E ctx \in Contexts, diagnostic \in KeyDiagnostics : AddKeyDiagnostics(ctx, K, diagnostic)
  \/ \E ctx \in Contexts, mismatches \in MismatchLists :
       AddInterpolationTypeMismatches(ctx, K, mismatches)

SpecDiagnostics == InitDiagnostics /\ [][NextDiagnostics]_vars

---------------------------------------------------------------------------
(* Keys made from literals *)

MaxKeyLen == 3

KeyChars == {"i", "f", "1", "_", "-", UnicodeLetter}
KeyLiterals == SeqsUpTo(KeyChars, MaxKeyLen)

\* let key = Key::new(literal);
NewKey ==
  /\ pc = "key"
  /\ made_key' = Key_new(literal)
  /\ pc' = "keyed"
  /\ UNCHANGED <<literal, s, scanVars, result, buildVars, tmplVars, nsVars, collectVars,
                 recorded>>

InitSanitize ==
  /\ literal \in KeyLiterals
  /\ s = <<>>
  /\ pc = "key"
  /\ pos = 1
  /\ parsing_interpolation = FALSE
  /\ start_byte_index = 0
  /\ parsing_type = FALSE
  /\ current_name = <<>>
  /\ current_type = <<>>
  /\ result = ParsedInterpolations_default
  /\ BuildIdle
  /\ TemplateIdle
  /\ RestIdle

NextSanitize == NewKey

SpecSanitize == InitSanitize /\ [][NextSanitize]_vars

---------------------------------------------------------------------------
(* src/src/collect.rs: the files of namespaced mode *)

\* A file "<stem>.toml": the parts of stem.split('.') and the parsed contents
File(parts) ==
  [parts |-> parts, contents |-> Single(K, String_(<<"o", "f">> \o Flatten(parts)))]

\* The locale of a file name, as the characters of the stem
locale_part(l) == <<l>>

FileStems ==
  {<<namespace, locale_part(l)>> : namespace \in {<<"a">>, <<"b">>}, l \in Locales}
  \cup {<<<<"1">>, locale_part("en")>>, <<locale_part("en")>>}
Directories == SUBSET {File(parts) : parts \in FileStems}

\* parts.len() != 2 || parts[0].is_empty() || !is_valid_identifier(parts[0])
invalid_file_name(parts) ==
  Len(parts) # 2 \/ parts[1] = <<>> \/ ~is_valid_identifier(parts[1])

NamespacedFile(namespace, file) == [namespace |-> namespace, file |-> file]

\* collect_namespaced, one iteration of for entry in toml_files: the name is
\* "<namespace>.<locale>.toml"
CollectFile(f) ==
  /\ collect_ret = Running
  /\ f \in unread
  /\ ~invalid_file_name(f.parts)
  /\ LET namespace == f.parts[1]
         locale == f.parts[2][1]
     IN files' = insert(files, locale, NamespacedFile(namespace, f.contents))
  /\ unread' = unread \ {f}
  /\ UNCHANGED <<parseVars, buildVars, tmplVars, nsVars, dir, collect_ret, recorded, made_key>>

\* ... return Err(WoofError::InvalidFileName(..))
CollectInvalidFileName(f) ==
  /\ collect_ret = Running
  /\ f \in unread
  /\ invalid_file_name(f.parts)
  /\ collect_ret' = Err([kind |-> "InvalidFileName"])
  /\ unread' = unread \ {f}
  /\ UNCHANGED <<parseVars, buildVars, tmplVars, nsVars, dir, files, recorded, made_key>>

\* namespaces.entry(file.namespace).or_insert_with(HashMap::new).insert(locale, file.file)
\* for every (locale, file) of the map
RECURSIVE group(_, _, _)
group(grouped, all, todo) ==
  IF todo = {} THEN grouped
  ELSE LET locale == CHOOSE l \in todo : TRUE
           file == all[locale]
           inner == or_default(grouped, file.namespace, <<>>)
       IN group(insert(grouped, file.namespace, insert(inner, locale, file.file)),
                all, todo \ {locale})

\* Ok(result), and collect_and_build_modules groups the files by namespace
CollectReturn ==
  /\ collect_ret = Running
  /\ unread = {}
  /\ collect_ret' = Ok(files)
  /\ namespaces' = group(<<>>, files, DOMAIN files)
  /\ UNCHANGED <<parseVars, buildVars, tmplVars, ns_remaining, ns_modules, ns_ret,
                 dir, unread, files, recorded, made_key>>

InitCollect ==
  /\ dir \in Directories
  /\ unread = dir
  /\ files = <<>>
  /\ collect_ret = Running
  /\ ParseIdle
  /\ BuildIdle
  /\ TemplateIdle
  /\ NamespacedIdle
  /\ recorded = 0
  /\ made_key = NotRun

NextCollect ==
  \/ \E f \in unread : CollectFile(f)
  \/ \E f \in unread : CollectInvalidFileName(f)
  \/ CollectReturn

SpecCollect == InitCollect /\ [][NextCollect]_vars

---------------------------------------------------------------------------
(* The interpolation parser on single tokens *)

Parsed == pc \in {"parsed", "done"}
TypeOfSuffix(suffix) ==
  CASE suffix = <<>> -> "None"
    [] suffix = <<":">> \o str_string -> "String"
    [] suffix = <<":">> \o str_number -> "Number"
GoodSuffixes == {<<>>, <<":">> \o str_string, <<":">> \o str_number}

\* The valid identifiers among the names: an ASCII letter followed by ASCII
\* letters, digits or underscores
ValidNames ==
  {n \in Names :
     /\ n # <<>>
     /\ n[1] \in AsciiLetters
     /\ \A i \in 2..Len(n) : n[i] \in AsciiLetters \cup AsciiDigits \cup {"_"}}

\* C1: a token "{n}", "{n:string}" or "{n:number}" with a valid identifier n parses
\* to no error and exactly one occurrence named n, of the matching type, whose
\* span runs from byte 0 to the last byte of the token.
C1_ValidToken ==
  \A n \in ValidNames, suffix \in GoodSuffixes :
    (Parsed /\ literal = Token(n, suffix)) =>
      /\ result.errors = <<>>
      /\ result.interpolations =
           <<[name |-> n, start |-> 0, end |-> len(literal) - 1,
              type_ |-> TypeOfSuffix(suffix)]>>

C1_Witness ==
  /\ pc = "parsed"
  /\ literal = Token(<<"a", "1">>, <<":">> \o str_number)
  /\ Len(result.interpolations) = 1

\* C2: a token "{name}" or "{name:string}" whose name has no brace and no colon
\* and is no valid identifier parses to no occurrence and exactly one error:
\* Empty for the empty name, otherwise InvalidIdentifier spanning the name
\* (offset 1, the byte length of the name).
C2_InvalidToken ==
  \A n \in Names \ ValidNames, suffix \in {<<>>, <<":">> \o str_string} :
    (Parsed /\ literal = Token(n, suffix)) =>
      /\ result.interpolations = <<>>
      /\ Len(result.errors) = 1
      /\ IF n = <<>>
         THEN result.errors[1].kind = "Empty"
         ELSE result.errors[1] = [kind |-> "InvalidIdentifier",
                                  at |-> [offset |-> 1, length |-> len(n)]]

C2_Witness ==
  /\ pc = "parsed"
  /\ literal = Token(<<"1", UnicodeLetter>>, <<":">> \o str_string)
  /\ Len(result.errors) = 1
  /\ result.errors[1].at = [offset |-> 1, length |-> 3]

\* What escaping and then collapsing "{{" makes of the i-th atom of xs
AtomOut(xs, i) ==
  CASE xs[i] = <<"{", "{">> -> <<"{">>
    [] xs[i] = <<Backtick>> -> <<"\\", Backtick>>
    [] xs[i] = <<"$">> -> IF i < Len(xs) /\ xs[i + 1] = <<"{", "{">>
                          THEN <<"\\", "$">>
                          ELSE <<"$">>
    [] OTHER -> xs[i]
TextOut(xs) == Flatten([i \in 1..Len(xs) |-> AtomOut(xs, i)])
XAtomSeqs == SeqsUpTo(XAtoms, MaxAtoms)

\* C3 as stated: "{{X}}" parses to nothing and materializes to "{X}".
C3_Original ==
  \A xs \in XAtomSeqs :
    (pc = "done" /\ literal = Escaped(Flatten(xs))) =>
      /\ result = ParsedInterpolations_default
      /\ template = Some(<<"{">> \o TextOut(xs) \o <<"}">>)

\* C3 as amended: "{{X}}", X without an unescaped brace, parses to no occurrence
\* and no error, and materializes to "{" X "}}" (X escaped, its own "{{"
\* collapsed): only "{{" is collapsed, the closing "}}" stays as written.
C3_EscapedBlock ==
  \A xs \in XAtomSeqs :
    (pc = "done" /\ literal = Escaped(Flatten(xs))) =>
      /\ result = ParsedInterpolations_default
      /\ template = Some(<<"{">> \o TextOut(xs) \o <<"}", "}">>)

C3_Witness ==
  /\ pc = "done"
  /\ literal = Escaped(<<"a", "{", "{">>)
  /\ template = Some(<<"{", "a", "{", "}", "}">>)

---------------------------------------------------------------------------
(* The builder: what it returns and what it records *)

Returned == ret # Running /\ ret # NotRun
RootsAreTables == \A l \in DOMAIN locales : locales[l].tag = "Table"

\* The values of a table that are no tables, each with the path of keys to it
RECURSIVE LeavesOf(_, _)
LeavesOf(table, prefix) ==
  UNION {LET e == table.entries[i]
             path == Append(prefix, e.key)
         IN IF e.value.tag = "Table" THEN LeavesOf(e.value, path)
            ELSE {[path |-> path, value |-> e.value]}
         : i \in 1..Len(table.entries)}

LeavesIn(l) == IF locales[l].tag = "Table" THEN LeavesOf(locales[l], <<>>) ELSE {}
AllPaths == UNION {{leaf.path : leaf \in LeavesIn(l)} : l \in DOMAIN locales}

\* The key path joined with "."
RECURSIVE Dotted(_)
Dotted(path) ==
  IF Len(path) = 1 THEN path[1] ELSE path[1] \o <<".">> \o Dotted(Tail(path))

\* The module of a tree that holds the messages of a path, when there is one
RECURSIVE HasModule(_, _)
HasModule(module, path) ==
  \/ Len(path) = 1
  \/ /\ path[1] \in DOMAIN module.modules
     /\ HasModule(module.modules[path[1]], Tail(path))
RECURSIVE ModuleOf(_, _)
ModuleOf(module, path) ==
  IF Len(path) = 1 THEN module ELSE ModuleOf(module.modules[path[1]], Tail(path))
HasMessage(module, path) ==
  HasModule(module, path) /\ path[Len(path)] \in DOMAIN ModuleOf(module, path).messages
MessageAt(module, path) == ModuleOf(module, path).messages[path[Len(path)]]

\* What the parser of the builder makes of a string leaf
ParseOf(leaf) == Translation_parse_interpolations(Translation_new(leaf.value.text))
IsString(leaf) == leaf.value.tag = "String"
OccurrencesOf(leaf, name) ==
  LET parsed == ParseOf(leaf).value
  IN {parsed[i] : i \in {j \in 1..Len(parsed) : parsed[j].name = name}}

\* C4 as stated: when every root is a table the build returns a Module and
\* never a hard error.
C4_Original == (Returned /\ RootsAreTables) => ret.ok

\* C5 as stated: after the build, two locales that give placeholder p of one
\* message different types are both in the type-mismatch diagnostic of the
\* message's dotted path and p.
C5_Original ==
  (Returned /\ RootsAreTables) =>
    \A l1 \in DOMAIN locales, l2 \in DOMAIN locales :
      \A leaf1 \in LeavesIn(l1), leaf2 \in LeavesIn(l2) :
        (/\ l1 # l2
         /\ leaf1.path = leaf2.path
         /\ IsString(leaf1) /\ IsString(leaf2)
         /\ ParseOf(leaf1).ok /\ ParseOf(leaf2).ok) =>
          \A o1 \in OccurrencesOf(leaf1, N), o2 \in OccurrencesOf(leaf2, N) :
            o1.type_ # o2.type_ =>
              LET key == <<Dotted(leaf1.path), N>>
                  all == diagnostics.interpolation_type_mismatches
              IN /\ key \in DOMAIN all
                 /\ {<<l1, o1.type_>>, <<l2, o2.type_>>} \subseteq all[key]

\* The orders a HashMap of the locales may be iterated in
OrdersOf(D) ==
  {order \in [1..Cardinality(D) -> D] :
     \A i \in 1..Cardinality(D), j \in 1..Cardinality(D) : order[i] = order[j] => i = j}

\* The same value with the entries of its tables in any order
RECURSIVE Reordered(_)
Reordered(value) ==
  IF value.tag # "Table" THEN {value}
  ELSE LET n == Len(value.entries)
       IN {Table_([i \in 1..n |-> Entry(value.entries[perm[i]].key, choice[perm[i]])]) :
             perm \in Permutations(1..n),
             choice \in {ch \in [1..n -> UNION {Reordered(value.entries[i].value) : i \in 1..n}] :
                          \A i \in 1..n : ch[i] \in Reordered(value.entries[i].value)}}

ReorderedMaps ==
  {locs \in [DOMAIN locales -> UNION {Reordered(locales[l]) : l \in DOMAIN locales}] :
     \A l \in DOMAIN locales : locs[l] \in Reordered(locales[l])}

\* C6 as stated: the build returns the same result whatever order the locales
\* and the keys of each table are processed in.
C6_Original ==
  Returned =>
    \A locs \in ReorderedMaps, order \in OrdersOf(DOMAIN locales) :
      build_flat_module(locs, order) = ret

\* A build that meets no content-level problem: every leaf is a string that
\* parses, and every placeholder of a message has one type in all its occurrences
InputClean ==
  /\ RootsAreTables
  /\ \A l \in DOMAIN locales : \A leaf \in LeavesIn(l) : IsString(leaf) /\ ParseOf(leaf).ok
  /\ \A l1 \in DOMAIN locales, l2 \in DOMAIN locales :
       \A leaf1 \in LeavesIn(l1), leaf2 \in LeavesIn(l2) :
         leaf1.path = leaf2.path =>
           \A o1 \in OccurrencesOf(leaf1, N), o2 \in OccurrencesOf(leaf2, N) :
             o1.type_ = o2.type_

\* The locales that define the path as a string
Defining(path) ==
  {l \in DOMAIN locales : \E leaf \in LeavesIn(l) : leaf.path = path /\ IsString(leaf)}
LeafAt(l, path) == CHOOSE leaf \in LeavesIn(l) : leaf.path = path /\ IsString(leaf)
TheOccurrence(l, path) == CHOOSE o \in OccurrencesOf(LeafAt(l, path), N) : TRUE

\* Every defining locale has placeholder n exactly once in its string, with type ty
SameTyped(path, ty) ==
  /\ Defining(path) # {}
  /\ \A l \in Defining(path) :
       /\ ParseOf(LeafAt(l, path)).ok
       /\ Cardinality(OccurrencesOf(LeafAt(l, path), N)) = 1
       /\ TheOccurrence(l, path).type_ = ty

\* C9: when the locales that define a key as a string all have placeholder n in it
\* with one type, the built Module has one Message for the key, with the
\* translation of every defining locale and one Interpolation n of that type
\* whose ranges map gives, for every defining locale, the span of "{n...}" in
\* its translation; nothing is recorded in the diagnostics, and an input of only
\* such strings builds without error.
C9_SameTypeMerged ==
  Returned =>
    /\ InputClean => ret.ok
    /\ ret.ok =>
         \A path \in AllPaths, ty \in {"None", "String", "Number"} :
           SameTyped(path, ty) =>
             /\ HasMessage(ret.value, path)
             /\ LET m == MessageAt(ret.value, path)
                    D == Defining(path)
                IN /\ DOMAIN m.translation = D
                   /\ \A l \in D : m.translation[l] = Translation_new(LeafAt(l, path).value.text)
                   /\ N \in DOMAIN m.interpolations
                   /\ m.interpolations[N].type_ = ty
                   /\ DOMAIN m.interpolations[N].ranges = D
                   /\ \A l \in D :
                        LET range == m.interpolations[N].ranges[l]
                        IN SubSeq(m.translation[l], range[1] + 1, range[2] + 1)
                             \in {Token(N, suffix) : suffix \in GoodSuffixes}
             /\ diagnostics = Diagnostics_default

C9_Witness ==
  /\ Returned
  /\ ret.ok
  /\ Cardinality(DOMAIN locales) = 2
  /\ \A l \in DOMAIN locales : locales[l] \in {Single(K, String_(S_n)), Single(K, String_(S_an))}
  /\ \E l \in DOMAIN locales : locales[l] = Single(K, String_(S_an))
  /\ \E l \in DOMAIN locales : MessageAt(ret.value, <<K>>).interpolations[N].ranges[l] = <<1, 3>>
  /\ \E l \in DOMAIN locales : MessageAt(ret.value, <<K>>).interpolations[N].ranges[l] = <<0, 2>>

\* C10 as stated: a value that is neither a string nor a table is recorded as
\* one unsupported-value-type diagnostic with the dotted key path and the type
\* name, makes no Message, and the other keys of the table are still processed.
C10_Original ==
  (Returned /\ RootsAreTables) =>
    \A l \in DOMAIN locales : \A leaf \in LeavesIn(l) :
      ~IsString(leaf) =>
        /\ \E file \in DOMAIN diagnostics.file_diagnostics :
             /\ file[1] = l
             /\ Dotted(leaf.path) \in DOMAIN diagnostics.file_diagnostics[file]
             /\ diagnostics.file_diagnostics[file][Dotted(leaf.path)] =
                  [kind |-> "UnsupportedValueType", value_type |-> type_str(leaf.value)]
        /\ ret.ok
        /\ \A other \in LeavesIn(l) :
             (IsString(other) /\ ParseOf(other).ok) =>
               /\ HasMessage(ret.value, other.path)
               /\ l \in DOMAIN MessageAt(ret.value, other.path).translation

---------------------------------------------------------------------------
(* The materializer on hand-built messages *)

Materialized == pc = "materialized" /\ loc \in DOMAIN msg.translation

\* The interpolations of the message that have a range for the locale
SpansOf(message, locale) ==
  {[name |-> k, range |-> message.interpolations[k].ranges[locale]] :
     k \in {n \in DOMAIN message.interpolations :
              locale \in DOMAIN message.interpolations[n].ranges}}

Disjoint(spans) ==
  \A a \in spans, b \in spans :
    a # b => (a.range[2] < b.range[1] \/ b.range[2] < a.range[1])
InBounds(text, spans) == \A a \in spans : a.range[1] <= a.range[2] /\ a.range[2] < len(text)
OnBoundaries(text, spans) ==
  \A a \in spans : is_char_boundary(text, a.range[1]) /\ is_char_boundary(text, a.range[2] + 1)

\* The first character of the text that starts after the byte
FirstAfter(text, byte) ==
  CHOOSE j \in 1..(Len(text) + 1) :
    /\ byte_index_of(text, j) > byte
    /\ \A k \in 1..(j - 1) : byte_index_of(text, k) <= byte

\* The text from character i on, every span replaced by its token and the
\* characters outside the spans kept in order
RECURSIVE Filled(_, _, _)
Filled(text, spans, i) ==
  IF i > Len(text) THEN <<>>
  ELSE IF \E a \in spans : a.range[1] = byte_index_of(text, i)
       THEN LET a == CHOOSE a \in spans : a.range[1] = byte_index_of(text, i)
            IN <<"$", "{", "a", "r", "g", "s", ".">> \o sanitize_key(a.name) \o <<"}">>
                 \o Filled(text, spans, FirstAfter(text, a.range[2]))
       ELSE <<text[i]>> \o Filled(text, spans, i + 1)

Expected(text, spans) == Some(replace_escapes(Filled(text, spans, 1)))

\* The vector of (key, range) pairs in every order
Orderings(v) == {[i \in 1..Len(v) |-> v[perm[i]]] : perm \in Permutations(1..Len(v))}

\* C7 as stated: for pairwise disjoint in-bounds spans the template is the
\* escaped translation with every span replaced by "${args.<sanitized name>}"
\* and the rest kept in order, up to the final collapse of "{{".
C7_Original ==
  Materialized =>
    LET text == msg.translation[loc]
        spans == SpansOf(msg, loc)
    IN (Disjoint(spans) /\ InBounds(text, spans)) => template = Expected(text, spans)

\* C7: for pairwise disjoint in-bounds spans whose two ends are on character
\* boundaries of the escaped translation, the template is the escaped
\* translation with every span replaced by "${args.<sanitized name>}" and the
\* rest kept in order, up to the final collapse of "{{"; it is the same for every
\* order of the collected interpolations.
C7_SpansReplaced ==
  Materialized =>
    LET text == msg.translation[loc]
        spans == SpansOf(msg, loc)
    IN (Disjoint(spans) /\ InBounds(text, spans) /\ OnBoundaries(text, spans)) =>
         /\ template = Expected(text, spans)
         /\ \A v \in Orderings(collect_interpolations(msg, loc)) :
              template_from(text, v) = template

C7_Witness ==
  /\ Materialized
  /\ msg.translation[loc] = <<UnicodeLetter, "a">>
  /\ DOMAIN msg.interpolations = {<<"a">>, <<"1", "-">>}
  /\ msg.interpolations[<<"a">>].ranges = (loc :> <<2, 2>>)
  /\ msg.interpolations[<<"1", "-">>].ranges = (loc :> <<0, 1>>)
  /\ template = Some(<<"$", "{", "a", "r", "g", "s", ".", "_", "1", "}",
                       "$", "{", "a", "r", "g", "s", ".", "a", "}">>)

\* C8: a message with a translation for the locale and no interpolation with a
\* range for the locale materializes to the stored translation with every "{{"
\* collapsed to "{", and to the stored translation itself when it has no "{{".
C8_NoInterpolations ==
  (Materialized /\ SpansOf(msg, loc) = {}) =>
    LET text == msg.translation[loc]
    IN /\ template = Some(replace_escapes(text))
       /\ (\A i \in 1..(Len(text) - 1) : ~(text[i] = "{" /\ text[i + 1] = "{")) =>
            template = Some(text)

C8_Witness ==
  /\ Materialized
  /\ msg.translation[loc] = <<"{", "{">>
  /\ \E k \in DOMAIN msg.interpolations : DOMAIN msg.interpolations[k].ranges = {"fr"}
  /\ loc = "en"
  /\ template = Some(<<"{">>)

---------------------------------------------------------------------------
(* A root that is no table *)

\* C11 as stated: when the top-level value of some locale is no table,
\* build_flat_module returns the hard error RootNotTable (and no Module).
C11_Original ==
  (Returned /\ ~RootsAreTables) => ret = Err([kind |-> "RootNotTable"])

---------------------------------------------------------------------------
(* The namespaced build *)

NsReturned == ns_ret # Running /\ ns_ret # NotRun

\* C12: build_namespaced_module returns a Module exactly when the flat build of
\* every namespace does; the Module has no messages of its own and one child per
\* namespace, keyed by the namespace name, which is the Module the flat build of
\* the namespace's locale tables returns.
C12_NamespacedModule ==
  NsReturned =>
    /\ ns_ret.ok <=>
         \A namespace \in DOMAIN namespaces :
           \A order \in IterationOrders(DOMAIN namespaces[namespace]) :
             build_flat_module(namespaces[namespace], order).ok
    /\ ns_ret.ok =>
         /\ ns_ret.value.messages = <<>>
         /\ DOMAIN ns_ret.value.modules = DOMAIN namespaces
         /\ \A namespace \in DOMAIN namespaces :
              \A order \in IterationOrders(DOMAIN namespaces[namespace]) :
                ns_ret.value.modules[namespace] =
                  build_flat_module(namespaces[namespace], order).value

C12_Witness ==
  /\ NsReturned
  /\ ns_ret.ok
  /\ DOMAIN namespaces = Namespaces
  /\ \A namespace \in Namespaces : DOMAIN namespaces[namespace] = Locales
  /\ \A namespace \in Namespaces :
       HasMessage(ns_ret.value.modules[namespace], <<K>>)
  /\ namespaces[<<"a">>] # namespaces[<<"i", "f">>]

---------------------------------------------------------------------------
(* The diagnostics accumulator *)

\* C13: is_empty() is true for the fresh accumulator, false exactly when a call
\* has recorded a structural or a type-mismatch diagnostic, and once false it
\* stays false through every further call.
C13_IsEmpty ==
  /\ [](is_empty(diagnostics) <=> recorded = 0)
  /\ [][~is_empty(diagnostics) => ~is_empty(diagnostics')]_vars

C13_Witness ==
  /\ pc = "diagnostics"
  /\ recorded = 2
  /\ diagnostics.file_diagnostics = <<>>
  /\ \E at \in DOMAIN diagnostics.interpolation_type_mismatches :
       Cardinality(diagnostics.interpolation_type_mismatches[at]) = 4
  /\ ~is_empty(diagnostics)

---------------------------------------------------------------------------
(* Sanitized keys *)

Letters == AsciiLetters \cup {UnicodeLetter}

\* C14 as stated: the sanitized field of every Key is non-empty, holds only
\* letters, digits and underscores, does not start with a digit and is no
\* reserved word.
C14_Original ==
  pc = "keyed" =>
    /\ made_key.sanitized # <<>>
    /\ \A i \in 1..Len(made_key.sanitized) :
         made_key.sanitized[i] \in Letters \cup AsciiDigits \cup {"_"}
    /\ made_key.sanitized # <<>> => made_key.sanitized[1] \notin AsciiDigits
    /\ made_key.sanitized \notin KEYWORDS

---------------------------------------------------------------------------
(* Termination of the parser *)

\* C15: parse_interpolations returns on every input: every step of its loop
\* moves on by at least one character and stays within the string, a
\* resynchronisation stops at the next closing brace or at the end of the
\* input, and the result is returned.
C15_Terminates ==
  /\ <>Parsed
  /\ [][(pc = "scan" /\ pc' = "scan") => (pos < pos' /\ pos' <= Len(s) + 1)]_vars
  /\ [][(ScanNested \/ (ScanColon /\ ~parsing_interpolation')) =>
          (pos' = Len(s) + 1 \/ s[pos'] = "}")]_vars
  /\ [](Parsed => DOMAIN result = {"interpolations", "errors"})

C15_Witness ==
  /\ pc = "parsed"
  /\ literal = <<"{", "a", "{", "a">>
  /\ Len(result.errors) = 1
  /\ result.interpolations = <<>>

---------------------------------------------------------------------------
(* Recovery from a nesting error *)

\* C16 as stated: a block with a nested brace gives exactly one error, and the
\* well-formed placeholder after it is returned as an occurrence with its own
\* name, type and span, without a further error.
C16_Original ==
  \A block \in NestedBlocks, suffix \in GoodSuffixes :
    (Parsed /\ literal = block \o Token(<<"n">>, suffix)) =>
      /\ Len(result.errors) = 1
      /\ result.interpolations =
           <<[name |-> <<"n">>, start |-> len(block), end |-> len(literal) - 1,
              type_ |-> TypeOfSuffix(suffix)]>>

---------------------------------------------------------------------------
(* Materialization of built messages *)

\* The text holds a placeholder "{n}", "{n:string}" or "{n:number}"
HasPlaceholder(str) ==
  \E suffix \in GoodSuffixes : \E i \in 1..Len(str) :
    /\ i + Len(Token(N, suffix)) - 1 <= Len(str)
    /\ SubSeq(str, i, i + Len(Token(N, suffix)) - 1) = Token(N, suffix)

\* C17 as stated: for every built message and every locale whose translation
\* parsed without error, the template holds no unsubstituted placeholder, also
\* when the placeholder occurs more than once.
C17_Original ==
  (Returned /\ ret.ok) =>
    \A l \in DOMAIN locales : \A leaf \in LeavesIn(l) :
      (IsString(leaf) /\ ParseOf(leaf).ok) =>
        LET made == template_for_locale(MessageAt(ret.value, leaf.path), l)
        IN made.kind = "Some" /\ ~HasPlaceholder(made.value)

---------------------------------------------------------------------------
(* Type conflicts *)

\* The tree as the builder has it at the moment
Built == Module_(messages, modules)

\* C18 as stated: a locale whose translation gives placeholder n a type other
\* than the one stored for n in the message gets no entry in the ranges map of
\* the Interpolation.
C18_Original ==
  \A l \in DOMAIN locales \ remaining : \A leaf \in LeavesIn(l) :
    (/\ IsString(leaf)
     /\ ParseOf(leaf).ok
     /\ HasMessage(Built, leaf.path)
     /\ N \in DOMAIN MessageAt(Built, leaf.path).interpolations) =>
      LET stored == MessageAt(Built, leaf.path).interpolations[N]
      IN (/\ OccurrencesOf(leaf, N) # {}
          /\ \A o \in OccurrencesOf(leaf, N) : o.type_ # stored.type_) =>
           l \notin DOMAIN stored.ranges

---------------------------------------------------------------------------
(* The files that reach the builder *)

\* C19 as stated: after collection and grouping, the namespaces map holds the
\* table of every file of the directory under the file's namespace and locale.
C19_Original ==
  (collect_ret # Running /\ collect_ret # NotRun /\ collect_ret.ok) =>
    \A f \in dir :
      /\ f.parts[1] \in DOMAIN namespaces
      /\ f.parts[2][1] \in DOMAIN namespaces[f.parts[1]]
      /\ namespaces[f.parts[1]][f.parts[2][1]] = f.contents

---------------------------------------------------------------------------
(* The stored ranges of a built Module *)

ByteIs(text, byte, ch) ==
  \E i \in 1..Len(text) : byte_index_of(text, i) = byte /\ text[i] = ch

\* C20: in every Module the builder returns, each locale in the ranges of an
\* Interpolation of a Message has a translation in that Message, the stored
\* span lies inside that translation, and the byte at its start is "{" and the
\* byte at its end is "}".
C20_RangesInTranslations ==
  (Returned /\ ret.ok) =>
    \A path \in AllPaths :
      HasMessage(ret.value, path) =>
        LET message == MessageAt(ret.value, path)
        IN \A name \in DOMAIN message.interpolations :
             \A l \in DOMAIN message.interpolations[name].ranges :
               /\ l \in DOMAIN message.translation
               /\ LET range == message.interpolations[name].ranges[l]
                      text == message.translation[l]
                  IN /\ range[1] <= range[2]
                     /\ range[2] < len(text)
                     /\ ByteIs(text, range[1], "{")
                     /\ ByteIs(text, range[2], "}")

\* A returned Module whose message k has placeholder n at different offsets in
\* two locales
C20_Witness ==
  /\ Returned
  /\ ret.ok
  /\ HasMessage(ret.value, <<K>>)
  /\ N \in DOMAIN MessageAt(ret.value, <<K>>).interpolations
  /\ MessageAt(ret.value, <<K>>).translation = [en |-> S_n, fr |-> S_an]
  /\ MessageAt(ret.value, <<K>>).interpolations[N].ranges = [en |-> <<0, 2>>, fr |-> <<1, 3>>]

---------------------------------------------------------------------------
(* Unknown types *)

BadTypes == {<<"a">>, <<UnicodeLetter, "1">>}

\* C21: a token "{n:T}" with a valid name n and a non-empty type text T other
\* than "string" and "number" parses to no occurrence and exactly one
\* InvalidType error that carries T and whose span covers T.
C21_InvalidType ==
  \A n \in ValidNames, T \in BadTypes :
    (Parsed /\ literal = Token(n, <<":">> \o T)) =>
      /\ result.interpolations = <<>>
      /\ result.errors = <<[kind |-> "InvalidType",
                            at |-> [offset |-> len(n) + 2, length |-> len(T)],
                            type_ |-> T]>>

C21_Witness ==
  /\ pc = "parsed"
  /\ literal = Token(<<"a", "_">>, <<":", UnicodeLetter, "1">>)
  /\ result.errors = <<[kind |-> "InvalidType", at |-> [offset |-> 4, length |-> 3],
                        type_ |-> <<UnicodeLetter, "1">>]>>

---------------------------------------------------------------------------
(* The empty type *)

\* C22 as stated: a token "{n:}" with a valid name n is not returned as an
\* occurrence, the parser reports an error for it.
C22_Original ==
  \A n \in ValidNames :
    (Parsed /\ literal = Token(n, <<":">>)) =>
      /\ result.interpolations = <<>>
      /\ result.errors # <<>>

---------------------------------------------------------------------------
(* The unclosed interpolation *)

Unclosed(errors) == {i \in 1..Len(errors) : errors[i].kind = "Unclosed"}
LastError == result.errors[Len(result.errors)]
EndOf(span) == span.offset + span.length

\* C23 as stated: when the input ends inside an open interpolation there is
\* exactly one Unclosed error, it is the last error, and its span starts at the
\* byte offset of the opening brace and ends at the end of the string.
C23_Original ==
  (Parsed /\ parsing_interpolation) =>
    /\ Unclosed(result.errors) = {Len(result.errors)}
    /\ ByteIs(s, start_byte_index, "{")
    /\ LastError.at.offset = start_byte_index
    /\ EndOf(LastError.at) = len(s)

\* C23 as amended: when the input ends inside an open interpolation there is
\* exactly one Unclosed error, it is the last error, and its span starts at the
\* byte after the opening brace and ends at the end of the string; when the
\* input ends outside an interpolation there is no Unclosed error.
C23_Unclosed ==
  /\ (Parsed /\ parsing_interpolation) =>
       /\ Unclosed(result.errors) = {Len(result.errors)}
       /\ ByteIs(s, start_byte_index, "{")
       /\ LastError.at.offset = start_byte_index + 1
       /\ EndOf(LastError.at) = len(s)
  /\ (Parsed /\ ~parsing_interpolation) => Unclosed(result.errors) = {}

C23_Witness ==
  /\ pc = "parsed"
  /\ literal = <<"{", "}", "{", "a">>
  /\ result.errors = <<[kind |-> "Empty", at |-> [offset |-> 0, length |-> 0]],
                       [kind |-> "Unclosed", at |-> [offset |-> 3, length |-> 1]]>>

---------------------------------------------------------------------------
(* A brace inside an open interpolation, closed twice *)

IsDoubleNested(a, b) == a \in NestedNames /\ b \in NestedNames /\ literal = DoubleNested(a, b)
OneNestingError ==
  /\ result.interpolations = <<>>
  /\ Len(result.errors) = 1
  /\ result.errors[1].kind = "InvalidIdentifier"

\* C24 as stated: for all brace-free, colon-free names a and b, "{a{b}}" parses
\* to no occurrence and exactly one error, an InvalidIdentifier.
C24_Original ==
  \A a, b \in NestedNames : (Parsed /\ IsDoubleNested(a, b)) => OneNestingError

\* C24 as amended: for all brace-free, colon-free names a and b with a not
\* empty, "{a{b}}" parses to no occurrence and exactly one error, an
\* InvalidIdentifier; the scanner skips up to but not including the first "}",
\* and both closing braces are read in the closed state without a change of
\* the result.
C24_DoubleNested ==
  /\ [](\A a, b \in NestedNames :
          (Parsed /\ IsDoubleNested(a, b) /\ a # <<>>) => OneNestingError)
  /\ [][\A a, b \in NestedNames :
          (IsDoubleNested(a, b) /\ a # <<>> /\ ScanNested) =>
            (pos' = Len(a) + Len(b) + 3 /\ s[pos'] = "}")]_vars
  /\ [][\A a, b \in NestedNames :
          (IsDoubleNested(a, b) /\ a # <<>> /\ InLoop /\ pos >= Len(a) + Len(b) + 3) =>
            (/\ s[pos] = "}"
             /\ ~parsing_interpolation
             /\ ~parsing_interpolation'
             /\ result' = result
             /\ pos' = pos + 1)]_vars

C24_Witness ==
  /\ pc = "parsed"
  /\ literal = DoubleNested(<<"1">>, <<UnicodeLetter>>)
  /\ result.errors = <<[kind |-> "InvalidIdentifier", at |-> [offset |-> 1, length |-> 2]]>>

---------------------------------------------------------------------------
(* Several placeholders in one string *)

\* The occurrence of item i of a run: it starts after the text before it and
\* its separator, and ends at its own closing brace
OccurrenceOf(run, i) ==
  LET before == RunText(SubSeq(run, 1, i - 1)) \o run[i].sep
  IN [name |-> run[i].name,
      start |-> len(before),
      end |-> len(before) + len(Token(run[i].name, run[i].suffix)) - 1,
      type_ |-> TypeOfSuffix(run[i].suffix)]

\* C25: a string of k well-formed placeholders separated by brace-free text
\* parses to no error and exactly k occurrences, in the order of the text,
\* each spanning from its own opening brace to its own closing brace, the
\* spans strictly increasing and pairwise disjoint.
C25_Sequence ==
  \A run \in Runs :
    (Parsed /\ literal = RunText(run)) =>
      /\ result.errors = <<>>
      /\ result.interpolations = [i \in 1..Len(run) |-> OccurrenceOf(run, i)]
      /\ \A i \in 1..Len(result.interpolations) :
           /\ ByteIs(s, result.interpolations[i].start, "{")
           /\ ByteIs(s, result.interpolations[i].end, "}")
           /\ result.interpolations[i].start < result.interpolations[i].end
           /\ i > 1 => result.interpolations[i - 1].end < result.interpolations[i].start

C25_Witness ==
  /\ pc = "parsed"
  /\ literal = <<UnicodeLetter>> \o Token(<<"a">>, <<>>) \o <<"a", ":">>
                 \o Token(<<"a", "1">>, <<":">> \o str_string)
  /\ result.interpolations =
       <<[name |-> <<"a">>, start |-> 2, end |-> 4, type_ |-> "None"],
         [name |-> <<"a", "1">>, start |-> 7, end |-> 17, type_ |-> "String"]>>

---------------------------------------------------------------------------
(* Nested tables *)

\* The key paths of the messages and of the nested modules of a tree
RECURSIVE MessagePaths(_, _)
MessagePaths(module, prefix) ==
  {Append(prefix, k) : k \in DOMAIN module.messages}
  \cup UNION {MessagePaths(module.modules[k], Append(prefix, k)) : k \in DOMAIN module.modules}
RECURSIVE ModulePaths(_, _)
ModulePaths(module, prefix) ==
  {Append(prefix, k) : k \in DOMAIN module.modules}
  \cup UNION {ModulePaths(module.modules[k], Append(prefix, k)) : k \in DOMAIN module.modules}

\* The key paths of the tables inside a table
RECURSIVE TablesOf(_, _)
TablesOf(table, prefix) ==
  UNION {LET e == table.entries[i]
             path == Append(prefix, e.key)
         IN IF e.value.tag = "Table" THEN {path} \cup TablesOf(e.value, path) ELSE {}
         : i \in 1..Len(table.entries)}
TablePaths == UNION {TablesOf(locales[l], <<>>) : l \in DOMAIN locales}
StringAt(l, path) == {leaf \in LeavesIn(l) : leaf.path = path /\ IsString(leaf)}

\* C26: in a returned Module the nested modules are exactly at the key paths
\* of the tables and the messages exactly at the key paths of the strings, so
\* a string inside a table is a message of the child only; a path met in
\* several locales is one Message that holds the translation of each of them.
C26_NestedModules ==
  (Returned /\ ret.ok) =>
    /\ ModulePaths(ret.value, <<>>) = TablePaths
    /\ MessagePaths(ret.value, <<>>) = AllPaths
    /\ \A path \in AllPaths :
         LET message == MessageAt(ret.value, path)
         IN /\ DOMAIN message.translation = {l \in DOMAIN locales : StringAt(l, path) # {}}
            /\ \A l \in DOMAIN message.translation : \A leaf \in StringAt(l, path) :
                 message.translation[l] = Translation_new(leaf.value.text)

\* A parent with message m and module k, whose message m has two locales
C26_Witness ==
  /\ Returned
  /\ ret.ok
  /\ DOMAIN ret.value.messages = {M}
  /\ DOMAIN ret.value.modules = {K}
  /\ DOMAIN ret.value.modules[K].modules = {}
  /\ ret.value.modules[K].messages[M].translation = [en |-> S_n, fr |-> S_an]

---------------------------------------------------------------------------
(* Messages and modules of one key *)

\* The modules of a tree, the tree itself included
RECURSIVE ModulesIn(_)
ModulesIn(module) ==
  {module} \cup UNION {ModulesIn(module.modules[k]) : k \in DOMAIN module.modules}

\* C27 as stated: in every returned Module, no key of a module of the tree is
\* both a Message and a nested Module of it.
C27_Original ==
  (Returned /\ ret.ok) =>
    \A module \in ModulesIn(ret.value) :
      DOMAIN module.messages \cap DOMAIN module.modules = {}

---------------------------------------------------------------------------
(* The name of an occurrence and the text of its span *)

CharAt(str, byte) == CHOOSE i \in 1..Len(str) : byte_index_of(str, i) = byte
RECURSIVE UpToColon(_)
UpToColon(str) ==
  IF str = <<>> \/ Head(str) = ":" THEN <<>> ELSE <<Head(str)>> \o UpToColon(Tail(str))
\* The text between the opening brace of an occurrence and its colon or
\* closing brace
NameRegion(o) == UpToColon(SubSeq(s, CharAt(s, o.start) + 1, CharAt(s, o.end) - 1))

\* C28 as stated: the name of every returned occurrence is exactly the text
\* between the opening brace and the colon or closing brace of its span.
C28_Original ==
  Parsed =>
    \A i \in 1..Len(result.interpolations) :
      /\ ByteIs(s, result.interpolations[i].start, "{")
      /\ ByteIs(s, result.interpolations[i].end, "}")
      /\ result.interpolations[i].name = NameRegion(result.interpolations[i])

---------------------------------------------------------------------------
(* Type mismatches of a single locale *)

\* C29 as stated: a build over a single locale reports no interpolation type
\* mismatch, neither as a diagnostic nor as an InterpolationTypeMismatch error.
C29_Original ==
  (Returned /\ Cardinality(DOMAIN locales) = 1) =>
    /\ ret.ok \/ ret.error.kind # "InterpolationTypeMismatch"
    /\ diagnostics.interpolation_type_mismatches = <<>>

---------------------------------------------------------------------------
(* Valid identifiers *)

\* The strings that match [a-zA-Z_][a-zA-Z0-9_]*
MatchesPattern(str) ==
  /\ str # <<>>
  /\ str[1] \in AsciiLetters \cup {"_"}
  /\ \A i \in 2..Len(str) : str[i] \in AsciiLetters \cup AsciiDigits \cup {"_"}

\* C30 as stated: is_valid_identifier is true exactly for the strings that
\* match [a-zA-Z_][a-zA-Z0-9_]*, so a token "{n}" with a non-empty name n is
\* returned as an occurrence exactly when n matches the pattern.
C30_Original ==
  \A n \in Names \ {<<>>} :
    (Parsed /\ literal = Token(n, <<>>)) =>
      /\ is_valid_identifier(n) <=> MatchesPattern(n)
      /\ result.errors = <<>> <=> MatchesPattern(n)

===========================================================================
